---- MODULE Spec2Model ----
(***************************************************************************)
(* pmetrics: a metrics store (counters, gauges, histograms with labels)    *)
(* kept in a dshash table inside a DSA area, shared by PostgreSQL          *)
(* backends.  The model follows src/pmetrics/pmetrics.c.  dshash, dsa and  *)
(* LWLock are PostgreSQL libraries; they are modelled by their contract:   *)
(* a table of items reached through their hash, an arena of allocations    *)
(* named by handles, partition locks released by error recovery.           *)
(***************************************************************************)
EXTENDS Integers, Sequences, FiniteSets, TLC

\* ------------------------------------------------------------ bounds
NumProcs == 2
NumPartitions == 2
HashMod == 8
MaxSlots == 4
ArenaCap == 2
MaxCalls == 2
MaxIncrements == 3
MaxSpawns == 2
ValDen == 2
MaxQueryIds == 2
IntBits == 5
MaxObserved == 40
MaxDepth == 2
MaxUsers == 2
MaxClock == 2

\* ------------------------------------------------- program constants
NAMEDATALEN == 64
MAX_QUERY_TEXT_LEN == 1024
METRIC_TYPE_COUNTER == 0
METRIC_TYPE_GAUGE == 1
METRIC_TYPE_HISTOGRAM == 2
METRIC_TYPE_HISTOGRAM_SUM == 3
LABELS_NONE == 0
LABELS_LOCAL == 1
LABELS_DSA == 2
InvalidDsaPointer == 0

\* A C NULL pointer (a name or a Jsonb argument), and the content read
\* through a handle whose allocation has been freed.
NULL == <<-1>>
Garbage == <<-2>>

Procs == 1..NumProcs
Partitions == 1..NumPartitions
Slots == 1..MaxSlots
Handles == 1..ArenaCap

\* ------------------------------------------------------------ inputs
\* Names are C strings, a tuple of character codes.
NameA == <<1>>
NameB == <<2>>
\* Jsonb values are their varlena bytes.  The first byte stands for the
\* container header; a trailing 0 byte stands for one more digit of
\* display scale of a numeric value (1.0 against 1.00): the bytes differ,
\* the JSON value does not.
EmptyObj == <<0>>
LabelsK == <<1, 5>>
LabelsKz == <<1, 5, 0>>
LabelsQ == <<1, 6>>

\* ------------------------------------------------------ configuration
\* pmetrics.bucket_variability as a rational <<numerator, denominator>>
\* and pmetrics.buckets_upper_bound as configured, before _PG_init rounds
\* it.
bucket_variability == <<1, 5>>
ConfiguredUpperBound == 5

RECURSIVE Pow(_, _)
Pow(b, k) == IF k = 0 THEN 1 ELSE b * Pow(b, k - 1)

\* gamma_val = (1 + bucket_variability) / (1 - bucket_variability)
gamma_val == <<bucket_variability[2] + bucket_variability[1], bucket_variability[2] - bucket_variability[1]>>

\* ceil(log(v) / log_gamma) for v = vn/vd >= 1: the least k with
\* gamma^k >= v, in exact arithmetic.
RECURSIVE LeastExp(_, _, _)
LeastExp(vn, vd, k) ==
    IF Pow(gamma_val[1], k) * vd >= vn * Pow(gamma_val[2], k)
    THEN k
    ELSE LeastExp(vn, vd, k + 1)

CeilLogGamma(vn, vd) == LeastExp(vn, vd, 0)

\* (int)pow(gamma_val, k): the power, truncated to an integer.
IntPowGamma(k) == Pow(gamma_val[1], k) \div Pow(gamma_val[2], k)

\* _PG_init: buckets_upper_bound is rounded up to a bucket boundary.
max_bucket_exp == CeilLogGamma(ConfiguredUpperBound, 1)
buckets_upper_bound == IntPowGamma(max_bucket_exp)

\* A double is the rational n/ValDen, given by its numerator n.
\* (int64)value truncates toward zero; floor rounds down.
TruncToInt64_floor(n) == n \div ValDen
TruncToInt64(n) == IF n >= 0 THEN n \div ValDen ELSE -((-n) \div ValDen)
Floor(n) == n \div ValDen

bucket_index(n) == IF n < ValDen THEN 0 ELSE CeilLogGamma(n, ValDen)

\* int is IntBits wide.  (int)x of a double whose integer part x an int
\* does not hold is undefined: the conversion instruction of x86 gives
\* INT_MIN, the one of ARM the nearest int.
INT_MAX == Pow(2, IntBits - 1) - 1
INT_MIN == -Pow(2, IntBits - 1)
DoubleToInt(x) == IF x >= INT_MIN /\ x <= INT_MAX THEN {x} ELSE {INT_MIN, IF x > 0 THEN INT_MAX ELSE INT_MIN}

bucket_for(n) ==
    LET this_bucket_upper_bound == IntPowGamma(bucket_index(n))
    IN  IF this_bucket_upper_bound > buckets_upper_bound
        THEN buckets_upper_bound
        ELSE this_bucket_upper_bound

\* The truncation notice of bucket_for.
bucket_for_notice(n) == IntPowGamma(bucket_index(n)) > buckets_upper_bound

\* bucket_for with this_bucket_upper_bound as the build converts it:
\* what it returns and whether it sends the notice.
bucket_for_outcomes(n) ==
    {[bucket |-> IF t > buckets_upper_bound THEN buckets_upper_bound ELSE t,
      notice |-> t > buckets_upper_bound] : t \in DoubleToInt(IntPowGamma(bucket_index(n)))}

\* ------------------------------------------------------------ hashing
RECURSIVE Xor(_, _)
Xor(a, b) ==
    IF a = 0 THEN b
    ELSE IF b = 0 THEN a
    ELSE ((a + b) % 2) + 2 * Xor(a \div 2, b \div 2)

RECURSIVE hash_bytes(_)
hash_bytes(bytes) ==
    IF bytes = <<>> THEN 1
    ELSE (3 * hash_bytes(Tail(bytes)) + Head(bytes) + 1) % HashMod

string_hash(name) == hash_bytes(name)
hash_uint32(k) == (5 * k + 3) % HashMod
PartitionForHash(h) == (h % NumPartitions) + 1

\* ------------------------------------------------------------- state
VARIABLES
    shared_state,   \* PMetricsSharedState, or absent before startup
    dsa,            \* the DSA area: exists, pinned, number of attachments
    arena,          \* label allocations: handle -> bytes, or Free
    table,          \* the dshash table: slot -> item, or NoEntry
    lock,           \* partition locks: exclusive holder and shared holders
    pc,             \* where each backend is
    local,          \* local_dsa, local_metrics_table, registered exit hooks, pmetrics_enabled
    op,             \* the locals of the operation a backend is running
    result,         \* what its last operation was and returned
    calls,          \* operations a backend slot has started
    spawns,         \* backends forked so far
    snap,           \* the call a caller made last, how, and the store as it saw it then
    target,         \* the key a repeating caller works on
    notices,        \* NOTICE messages each backend has sent its client
    stmts,          \* pmetrics_stmts: the query-text table, its lock, each backend's hook
    guc,            \* the settings as given, and what _PG_init and the bucket functions derive
    legacy,         \* the store of src/pmetrics.c: one HTAB under one LWLock
    tracker         \* pmetrics_stmts: nesting levels, query metrics, the cleanup worker

vars == <<shared_state, dsa, arena, table, lock, pc, local, op, result, calls, spawns, snap, target, notices, stmts, guc, legacy, tracker>>

Free == <<-3>>
NoKey == [name |-> <<>>, labels_location |-> LABELS_NONE, labels |-> NULL, type |-> METRIC_TYPE_COUNTER, bucket |-> 0]
NoEntry == [key |-> NoKey, value |-> 0, hash |-> -1]
Used(s) == table[s].hash # -1
UninitValues == {0, 7}

\* ---------------------------------------------------------- MetricKey
\* Variant: the kind and the bucket left out of the key.
init_metric_key_untyped(name, labels_jsonb, type, bucket) ==
    [name |-> name,
     labels_location |-> IF labels_jsonb # NULL THEN LABELS_LOCAL ELSE LABELS_NONE,
     labels |-> IF labels_jsonb # NULL THEN labels_jsonb ELSE NULL,
     type |-> METRIC_TYPE_COUNTER,
     bucket |-> 0]

init_metric_key(name, labels_jsonb, type, bucket) ==
    [name |-> name,
     labels_location |-> IF labels_jsonb # NULL THEN LABELS_LOCAL ELSE LABELS_NONE,
     labels |-> IF labels_jsonb # NULL THEN labels_jsonb ELSE NULL,
     type |-> type,
     bucket |-> bucket]

dsa_get_address(ptr) == IF arena[ptr] = Free THEN Garbage ELSE arena[ptr]

get_labels_jsonb(key) ==
    IF key.labels_location = LABELS_LOCAL THEN key.labels
    ELSE IF key.labels_location = LABELS_DSA
         THEN IF key.labels # InvalidDsaPointer THEN dsa_get_address(key.labels) ELSE NULL
         ELSE NULL

\* Variant: the hash of the bytes of the key struct, as dshash_memhash
\* takes it: the labels by their location and reference.
metric_hash_dshash_memhash(k) ==
    LET h == Xor(Xor(string_hash(k.name), hash_bytes(<<k.type>>)), hash_uint32(k.bucket))
    IN  Xor(h, hash_bytes(<<k.labels_location>>))

metric_hash_dshash(k) ==
    LET h == Xor(Xor(string_hash(k.name), hash_bytes(<<k.type>>)), hash_uint32(k.bucket))
        labels == get_labels_jsonb(k)
    IN  IF labels # NULL THEN Xor(h, hash_bytes(labels)) ELSE h

\* strcmp and memcmp: the sign of the first difference.
RECURSIVE strcmp(_, _)
strcmp(a, b) ==
    IF a = <<>> /\ b = <<>> THEN 0
    ELSE IF a = <<>> THEN -1
    ELSE IF b = <<>> THEN 1
    ELSE IF Head(a) # Head(b) THEN (IF Head(a) < Head(b) THEN -1 ELSE 1)
    ELSE strcmp(Tail(a), Tail(b))

memcmp(a, b) == strcmp(a, b)

\* compareJsonbContainers compares JSON values: numerics that differ only
\* in display scale are equal.
RECURSIVE JsonValue(_)
JsonValue(bytes) ==
    IF Len(bytes) > 1 /\ bytes[Len(bytes)] = 0
    THEN JsonValue(SubSeq(bytes, 1, Len(bytes) - 1))
    ELSE bytes
compareJsonbContainers(a, b) == strcmp(JsonValue(a), JsonValue(b))

\* Variant: the keys compared as structs, field by field, the labels by
\* their reference.
metric_compare_dshash_by_reference(k1, k2) ==
    IF /\ k1.name = k2.name
       /\ k1.type = k2.type
       /\ k1.bucket = k2.bucket
       /\ k1.labels_location = k2.labels_location
       /\ k1.labels = k2.labels
    THEN 0 ELSE 1

\* Variant: the labels compared as JSON values.
metric_compare_dshash_by_value(k1, k2) ==
    LET cmp == strcmp(k1.name, k2.name)
        labels1 == get_labels_jsonb(k1)
        labels2 == get_labels_jsonb(k2)
    IN  IF cmp # 0 THEN cmp
        ELSE IF k1.type # k2.type THEN (IF k1.type < k2.type THEN -1 ELSE 1)
        ELSE IF k1.bucket # k2.bucket THEN (IF k1.bucket < k2.bucket THEN -1 ELSE 1)
        ELSE IF labels1 = NULL /\ labels2 = NULL THEN 0
        ELSE IF labels1 = NULL THEN -1
        ELSE IF labels2 = NULL THEN 1
        ELSE compareJsonbContainers(labels1, labels2)

metric_compare_dshash(k1, k2) ==
    LET cmp == strcmp(k1.name, k2.name)
        labels1 == get_labels_jsonb(k1)
        labels2 == get_labels_jsonb(k2)
    IN  IF cmp # 0 THEN cmp
        ELSE IF k1.type # k2.type THEN (IF k1.type < k2.type THEN -1 ELSE 1)
        ELSE IF k1.bucket # k2.bucket THEN (IF k1.bucket < k2.bucket THEN -1 ELSE 1)
        ELSE IF labels1 = NULL /\ labels2 = NULL THEN 0
        ELSE IF labels1 = NULL THEN -1
        ELSE IF labels2 = NULL THEN 1
        ELSE IF Len(labels1) # Len(labels2) THEN (IF Len(labels1) < Len(labels2) THEN -1 ELSE 1)
        ELSE memcmp(labels1, labels2)

\* dsa_allocate: the lowest free handle, InvalidDsaPointer when the area
\* is exhausted.
dsa_allocate ==
    IF \E h \in Handles : arena[h] = Free
    THEN CHOOSE h \in Handles : arena[h] = Free /\ \A g \in Handles : arena[g] = Free => h <= g
    ELSE InvalidDsaPointer

\* metric_key_copy: the key as stored and the arena after the copy, or
\* the error it raises.
\* Variant: the key copied as it is, its labels left where they are.
metric_key_copy_shallow(src_key) == [ok |-> TRUE, key |-> src_key, arena |-> arena]

\* Variant: labels whose bytes are already in the arena are not copied,
\* the new key pointing at the allocation that holds them.
metric_key_copy_interned(src_key) ==
    IF src_key.labels_location = LABELS_LOCAL /\ src_key.labels # NULL
    THEN IF \E h \in Handles : arena[h] = src_key.labels
         THEN [ok |-> TRUE,
               key |-> [src_key EXCEPT !.labels = CHOOSE h \in Handles : arena[h] = src_key.labels,
                                       !.labels_location = LABELS_DSA],
               arena |-> arena]
         ELSE LET ptr == dsa_allocate
              IN  IF ptr = InvalidDsaPointer
                  THEN [ok |-> FALSE, key |-> src_key, arena |-> arena]
                  ELSE [ok |-> TRUE,
                        key |-> [src_key EXCEPT !.labels = ptr, !.labels_location = LABELS_DSA],
                        arena |-> [arena EXCEPT ![ptr] = src_key.labels]]
    ELSE [ok |-> TRUE, key |-> src_key, arena |-> arena]

metric_key_copy(src_key) ==
    IF src_key.labels_location = LABELS_LOCAL /\ src_key.labels # NULL
    THEN LET ptr == dsa_allocate
         IN  IF ptr = InvalidDsaPointer
             THEN [ok |-> FALSE, key |-> src_key, arena |-> arena]
             ELSE [ok |-> TRUE,
                   key |-> [src_key EXCEPT !.labels = ptr, !.labels_location = LABELS_DSA],
                   arena |-> [arena EXCEPT ![ptr] = src_key.labels]]
    ELSE [ok |-> TRUE, key |-> src_key, arena |-> arena]

\* ------------------------------------------------------------ helpers
NoOp ==
    [kind |-> "none", name |-> <<>>, labels |-> NULL, arg |-> 0, key |-> NoKey,
     amount |-> 0, found |-> FALSE, entry |-> 0, tmp |-> 0, stage |-> 0, cur |-> 0,
     count |-> 0, rows |-> <<>>, bucket_count |-> 0]
NoResult == [status |-> "none", val |-> 0, rows |-> <<>>]
NoCall == [kind |-> "none", name |-> <<>>, labels |-> NULL, arg |-> 0]
NoLocal ==
    [local_dsa |-> FALSE, local_metrics_table |-> FALSE, exit_hooks |-> 0, pmetrics_enabled |-> TRUE,
     shmem_exit_inprogress |-> FALSE]
NoSharedState == [exists |-> FALSE, initialized |-> FALSE, dsa |-> 0, metrics_handle |-> 0]
NoDsa == [exists |-> FALSE, pinned |-> FALSE, refcnt |-> 0, handle |-> 0]
NoTarget == [name |-> <<>>, labels |-> NULL]
NoSnap == [call |-> NoCall, store |-> {}, enabled |-> TRUE, sql |-> FALSE]
\* pmetrics_stmts: QueryTextEntry per queryid, the table's partition
\* lock, and where each backend is in pmetrics_stmts_post_parse_analyze.
QueryIds == 1..MaxQueryIds
NoQueryText == [used |-> FALSE, query_len |-> 0, query_text |-> <<>>]
UninitQueryText == [used |-> TRUE, query_len |-> -1, query_text |-> Garbage]
NoStatement == [queryid |-> 0, text |-> <<>>, clocations_count |-> 0]
NoStmts ==
    [table |-> [q \in QueryIds |-> NoQueryText], lock |-> 0,
     hook |-> [p \in Procs |-> [pc |-> "idle", stmt |-> NoStatement]]]
NoGuc ==
    [loaded |-> FALSE, bucket_variability |-> bucket_variability, configured |-> ConfiguredUpperBound,
     gamma_val |-> <<1, 1>>, buckets_upper_bound |-> ConfiguredUpperBound, returned |-> {}, listed |-> <<>>]
\* The store of src/pmetrics.c: metrics_tbl (name -> value, -1 for a name
\* not entered), metrics_tbl_lock (its exclusive holder, 0 for none) and
\* each backend's list_metrics call in progress with the entries its
\* hash_seq_search has yet to return.
LegacyNames == {<<1>>, <<2>>}
NoLegacy ==
    [lock |-> 0, metrics_tbl |-> [n \in LegacyNames |-> -1],
     scan |-> [p \in Procs |-> [open |-> FALSE, left |-> {}]]]
\* pmetrics_stmts in one backend: nesting_level, the statements being
\* planned or executed (innermost last) and the query metrics recorded,
\* <<metric, queryid>>.
\* A query identity is <<queryid, userid>> (one database); last_exec is
\* its query_last_exec_timestamp gauge, -1 when it has no metrics; now
\* is the clock in seconds; cleanup is the cleanup worker: the
\* identities its query selected and has still to delete, and its cutoff.
Identities == QueryIds \X (1..MaxUsers)
NoCleanup == [pc |-> "idle", stale |-> {}, cutoff_seconds |-> 0]
NoTracker ==
    [nesting_level |-> 0, stack |-> <<>>, recorded |-> {},
     last_exec |-> [id \in Identities |-> -1], now |-> 0, cleanup |-> NoCleanup]
EmptyTable == [s \in Slots |-> NoEntry]
EmptyArena == [h \in Handles |-> Free]
NoLocks == [i \in Partitions |-> [x |-> 0, s |-> {}]]

\* The store as a caller sees it: one row per stored item.
EntryView(s) ==
    [name |-> table[s].key.name, labels |-> get_labels_jsonb(table[s].key),
     type |-> table[s].key.type, bucket |-> table[s].key.bucket, value |-> table[s].value]
StoreView == {EntryView(s) : s \in {t \in Slots : Used(t)}}

\* LWLock: exclusive and shared acquisition of a partition lock.
\* Variant: a lock that is handed out whoever holds it.
CanLockExclusive_no_wait(p, i) == TRUE
CanLockExclusive(p, i) == lock[i].x = 0 /\ lock[i].s = {}
CanLockShared(p, i) == lock[i].x = 0
\* LWLockReleaseAll, run by error recovery.
ReleasedAll(p) == [i \in Partitions |-> [x |-> IF lock[i].x = p THEN 0 ELSE lock[i].x, s |-> lock[i].s \ {p}]]
\* Variant: no dshash_release_lock.
Released_none(p, i) == lock
Released(p, i) == [lock EXCEPT ![i] = [x |-> IF lock[i].x = p THEN 0 ELSE lock[i].x, s |-> lock[i].s \ {p}]]

CallOf(kind, name, labels, arg) == [kind |-> kind, name |-> name, labels |-> labels, arg |-> arg]
ResultOf(status, val, rows) == [status |-> status, val |-> val, rows |-> rows]

\* elog(ERROR): the operation is abandoned, error recovery releases the
\* LWLocks the backend holds.
Raise(p, msg) ==
    /\ pc' = [pc EXCEPT ![p] = "idle"]
    /\ op' = [op EXCEPT ![p] = NoOp]
    /\ result' = [result EXCEPT ![p] = ResultOf(msg, 0, <<>>)]
    /\ lock' = ReleasedAll(p)

\* elog(ERROR) under dshash_find_or_insert, which holds the lock of
\* partition i by then: error recovery runs LWLockReleaseAll.
\* Variant: error recovery that leaves the locks as they are.
LWLockReleaseAll_none(l, p) == l
LWLockReleaseAll(l, p) == [i \in Partitions |-> [x |-> IF l[i].x = p THEN 0 ELSE l[i].x, s |-> l[i].s \ {p}]]
RaiseHolding(p, i, msg) ==
    /\ pc' = [pc EXCEPT ![p] = "idle"]
    /\ op' = [op EXCEPT ![p] = NoOp]
    /\ result' = [result EXCEPT ![p] = ResultOf(msg, 0, <<>>)]
    /\ lock' = LWLockReleaseAll([lock EXCEPT ![i].x = p], p)

\* A normal return to the caller.
Return(p, val, rows) ==
    /\ pc' = [pc EXCEPT ![p] = "idle"]
    /\ op' = [op EXCEPT ![p] = NoOp]
    /\ result' = [result EXCEPT ![p] = ResultOf("ok", val, rows)]

\* Variant: validate_inputs without its test of the length.
validate_inputs_null_only(name) == IF name = NULL THEN "null input not allowed" ELSE "ok"

validate_inputs(name) ==
    IF name = NULL THEN "null input not allowed"
    ELSE IF Len(name) >= NAMEDATALEN THEN "name too long"
    ELSE "ok"

\* get_metrics_table: what stops a backend from attaching.
pmetrics_is_initialized == shared_state.exists /\ shared_state.initialized

\* Variant: get_metrics_table without its two tests of shared_state.
get_metrics_table_error_unchecked(p) ==
    IF local[p].local_metrics_table THEN "ok"
    ELSE IF local[p].local_dsa THEN "can't attach the same segment more than once"
    ELSE IF ~dsa.exists THEN "could not attach to dynamic shared area"
    ELSE "ok"
get_metrics_table_error(p) ==
    IF local[p].local_metrics_table THEN "ok"
    ELSE IF ~shared_state.exists THEN "pmetrics shared state not initialized"
    ELSE IF ~shared_state.initialized THEN "pmetrics not properly initialized during startup"
    ELSE IF local[p].local_dsa THEN "can't attach the same segment more than once"
    ELSE IF ~dsa.exists \/ dsa.handle # shared_state.dsa THEN "could not attach to dynamic shared area"
    ELSE "ok"

\* Variant: get_metrics_table without its test of local_metrics_table.
get_metrics_table_every_call(p) ==
    /\ local' = [local EXCEPT ![p].local_dsa = TRUE, ![p].local_metrics_table = TRUE,
                              ![p].exit_hooks = local[p].exit_hooks + 1]
    /\ dsa' = [dsa EXCEPT !.refcnt = dsa.refcnt + 1]

\* get_metrics_table: attach on the first call (dsa_attach,
\* dsa_pin_mapping, dshash_attach, on_shmem_exit), reuse afterwards.
get_metrics_table(p) ==
    IF local[p].local_metrics_table
    THEN UNCHANGED <<local, dsa>>
    ELSE /\ local' = [local EXCEPT ![p].local_dsa = TRUE, ![p].local_metrics_table = TRUE,
                                   ![p].exit_hooks = local[p].exit_hooks + 1]
         /\ dsa' = [dsa EXCEPT !.refcnt = dsa.refcnt + 1]

\* dsa_detach: the area is destroyed with its last reference unless it
\* is pinned; its contents go with it.
Destroyed(area) == area.refcnt = 1 /\ ~area.pinned
Detached(area) == IF Destroyed(area) THEN [NoDsa EXCEPT !.handle = area.handle] ELSE [area EXCEPT !.refcnt = area.refcnt - 1]
dsa_detach ==
    /\ dsa' = Detached(dsa)
    /\ arena' = IF Destroyed(dsa) THEN EmptyArena ELSE arena
    /\ table' = IF Destroyed(dsa) THEN EmptyTable ELSE table

\* dsa_create and dsa_pin, as metrics_shmem_startup calls them.
dsa_create == [exists |-> TRUE, pinned |-> FALSE, refcnt |-> 1, handle |-> dsa.handle + 1]
\* Variant: the area left unpinned.
dsa_pin_omitted(area) == area
dsa_pin(area) == [area EXCEPT !.pinned = TRUE]

\* -------------------------------------------------------------- Init
Init ==
    /\ shared_state = NoSharedState
    /\ dsa = NoDsa
    /\ arena = EmptyArena
    /\ table = EmptyTable
    /\ lock = NoLocks
    /\ pc = [p \in Procs |-> "none"]
    /\ local = [p \in Procs |-> NoLocal]
    /\ op = [p \in Procs |-> NoOp]
    /\ result = [p \in Procs |-> NoResult]
    /\ calls = [p \in Procs |-> 0]
    /\ spawns = 0
    /\ snap = NoSnap
    /\ target = NoTarget
    /\ notices = [p \in Procs |-> 0]
    /\ stmts = NoStmts
    /\ guc = NoGuc
    /\ legacy = NoLegacy
    /\ tracker = NoTracker

\* metrics_shmem_startup from ShmemInitStruct on: when the block was not
\* found, dsa_create, dsa_pin, dshash_create, the two handles and the
\* flag stored in the block, then both detached; when it was found,
\* nothing but the backend's pointer to it.
InitializedState(area) == [exists |-> TRUE, initialized |-> TRUE, dsa |-> area.handle, metrics_handle |-> 1]
ShmemInitStruct_not_found(found) ==
    /\ shared_state' = InitializedState(dsa_create)
    /\ dsa' = Detached(dsa_pin(dsa_create))
    /\ arena' = EmptyArena
    /\ table' = EmptyTable
ShmemInitStruct(found) ==
    IF ~found
    THEN /\ shared_state' = InitializedState(dsa_create)
         /\ dsa' = Detached(dsa_pin(dsa_create))
         /\ arena' = EmptyArena
         /\ table' = EmptyTable
    ELSE UNCHANGED <<shared_state, dsa, arena, table>>

\* metrics_shmem_startup in the postmaster: the first run creates the
\* area and the table, pins the area and detaches.
metrics_shmem_startup ==
    /\ \A p \in Procs : pc[p] = "none"
    /\ ~shared_state.exists
    /\ ShmemInitStruct(shared_state.exists)
    /\ UNCHANGED <<lock, pc, local, op, result, calls, spawns, snap, target, notices, stmts, guc, legacy, tracker>>

\* The postmaster forks a backend, at most limit of them in all.  The
\* backend has the postmaster's shared_state, or (EXEC_BACKEND) runs
\* metrics_shmem_startup itself and finds the block.
Spawn(p, limit) ==
    /\ pc[p] \in {"none", "exited"}
    /\ shared_state.exists
    /\ spawns < limit
    /\ spawns' = spawns + 1
    /\ pc' = [pc EXCEPT ![p] = "idle"]
    /\ local' = [local EXCEPT ![p] = NoLocal]
    /\ result' = [result EXCEPT ![p] = NoResult]
    /\ calls' = [calls EXCEPT ![p] = 0]
    /\ ShmemInitStruct(shared_state.exists)
    /\ UNCHANGED <<lock, op, snap, target, notices, stmts, guc, legacy, tracker>>

\* proc_exit: the on_shmem_exit callbacks run; cleanup_metrics_backend
\* detaches the table and the area.
cleanup_metrics_backend(p) ==
    /\ pc[p] = "idle"
    /\ pc' = [pc EXCEPT ![p] = "exited"]
    /\ IF local[p].exit_hooks > 0
       THEN /\ local' = [local EXCEPT ![p].local_dsa = FALSE, ![p].local_metrics_table = FALSE,
                                      ![p].exit_hooks = local[p].exit_hooks - 1]
            /\ IF local[p].local_dsa THEN dsa_detach ELSE UNCHANGED <<dsa, arena, table>>
       ELSE /\ UNCHANGED local
            \* a mapping no callback detaches goes with the segments of
            \* the process
            /\ IF local[p].local_dsa THEN dsa_detach ELSE UNCHANGED <<dsa, arena, table>>
    /\ UNCHANGED <<shared_state, lock, op, result, calls, spawns, snap, target, notices, stmts, guc, legacy, tracker>>

\* shmem_exit running cleanup_metrics_backend while a callback that was
\* registered before it (on_shmem_exit callbacks run last registered
\* first) is still to run: code of another library, which may call the
\* functions of pmetrics.h.
shmem_exit(p) ==
    /\ pc[p] = "idle"
    /\ ~local[p].shmem_exit_inprogress
    /\ local[p].exit_hooks > 0
    /\ local' = [local EXCEPT ![p].local_dsa = FALSE, ![p].local_metrics_table = FALSE,
                              ![p].exit_hooks = local[p].exit_hooks - 1,
                              ![p].shmem_exit_inprogress = TRUE]
    /\ IF local[p].local_dsa THEN dsa_detach ELSE UNCHANGED <<dsa, arena, table>>
    /\ UNCHANGED <<shared_state, lock, pc, op, result, calls, spawns, snap, target, notices, stmts, guc, legacy, tracker>>

\* -------------------------------------------------------- increment_by
\* increment_by and pmetrics_set_gauge up to their call of
\* dshash_find_or_insert: get_metrics_table, init_metric_key.
attach_and_probe(p, call, type, bucket, amount) ==
    IF get_metrics_table_error(p) # "ok"
    THEN /\ Raise(p, get_metrics_table_error(p))
         /\ UNCHANGED <<local, dsa>>
    ELSE /\ get_metrics_table(p)
         /\ pc' = [pc EXCEPT ![p] = "find_or_insert"]
         /\ op' = [op EXCEPT ![p] = [NoOp EXCEPT !.kind = call.kind, !.name = call.name,
                                                 !.labels = call.labels, !.arg = call.arg,
                                                 !.key = init_metric_key(call.name, call.labels, type, bucket),
                                                 !.amount = amount, !.stage = 1]]
         /\ result' = [result EXCEPT ![p] = NoResult]
         /\ UNCHANGED lock

\* The caller's side of every call: one more call made; when the caller
\* keeps track, the store as it stood, the setting of pmetrics.enabled
\* and whether the call came through the SQL function are noted.
Entered(p, call, obs, sql) ==
    /\ pc[p] = "idle"
    /\ calls' = [calls EXCEPT ![p] = calls[p] + 1]
    /\ snap' = IF obs
               THEN [call |-> call, store |-> StoreView, enabled |-> local[p].pmetrics_enabled, sql |-> sql]
               ELSE snap
Called(p, call, obs) == Entered(p, call, obs, FALSE)

\* A call of pmetrics_increment_counter whose get_metrics_table maps the
\* area (dsa_attach, dsa_pin_mapping) and whose dshash_attach, which
\* allocates its handle in TopMemoryContext, raises out of memory.
get_metrics_table_out_of_memory(p, obs) ==
    /\ Called(p, CallOf("increment_counter", NameA, NULL, 1), obs)
    /\ ~local[p].local_metrics_table
    /\ get_metrics_table_error(p) = "ok"
    /\ local' = [local EXCEPT ![p].local_dsa = TRUE]
    /\ dsa' = [dsa EXCEPT !.refcnt = dsa.refcnt + 1]
    /\ Raise(p, "out of memory")
    /\ UNCHANGED <<shared_state, arena, table, spawns, target, notices, stmts, guc, legacy, tracker>>

pmetrics_increment_counter(p, name_str, labels_jsonb, obs) ==
    LET call == CallOf("increment_counter", name_str, labels_jsonb, 1)
    IN  /\ Called(p, call, obs)
        /\ IF validate_inputs(name_str) # "ok"
           THEN Raise(p, validate_inputs(name_str)) /\ UNCHANGED <<local, dsa>>
           ELSE attach_and_probe(p, call, METRIC_TYPE_COUNTER, 0, 1)
        /\ UNCHANGED <<shared_state, arena, table, spawns, target, notices, stmts, guc, legacy, tracker>>

pmetrics_increment_counter_by(p, name_str, labels_jsonb, amount, obs) ==
    LET call == CallOf("increment_counter_by", name_str, labels_jsonb, amount)
    IN  /\ Called(p, call, obs)
        /\ IF validate_inputs(name_str) # "ok"
           THEN Raise(p, validate_inputs(name_str)) /\ UNCHANGED <<local, dsa>>
           ELSE IF amount <= 0
           THEN Raise(p, "increment must be greater than 0") /\ UNCHANGED <<local, dsa>>
           ELSE attach_and_probe(p, call, METRIC_TYPE_COUNTER, 0, amount)
        /\ UNCHANGED <<shared_state, arena, table, spawns, target, notices, stmts, guc, legacy, tracker>>

pmetrics_add_to_gauge(p, name_str, labels_jsonb, amount, obs) ==
    LET call == CallOf("add_to_gauge", name_str, labels_jsonb, amount)
    IN  /\ Called(p, call, obs)
        /\ IF validate_inputs(name_str) # "ok"
           THEN Raise(p, validate_inputs(name_str)) /\ UNCHANGED <<local, dsa>>
           ELSE IF amount = 0
           THEN Raise(p, "value can't be 0") /\ UNCHANGED <<local, dsa>>
           ELSE attach_and_probe(p, call, METRIC_TYPE_GAUGE, 0, amount)
        /\ UNCHANGED <<shared_state, arena, table, spawns, target, notices, stmts, guc, legacy, tracker>>

\* pmetrics_set_gauge up to its call of dshash_find_or_insert.
pmetrics_set_gauge(p, name_str, labels_jsonb, value, obs) ==
    LET call == CallOf("set_gauge", name_str, labels_jsonb, value)
    IN  /\ Called(p, call, obs)
        /\ IF validate_inputs(name_str) # "ok"
           THEN Raise(p, validate_inputs(name_str)) /\ UNCHANGED <<local, dsa>>
           ELSE attach_and_probe(p, call, METRIC_TYPE_GAUGE, 0, value)
        /\ UNCHANGED <<shared_state, arena, table, spawns, target, notices, stmts, guc, legacy, tracker>>

\* pmetrics_record_to_histogram up to the dshash_find_or_insert of its
\* first increment_by; value is the numerator of the observed double.
pmetrics_record_to_histogram(p, name_str, labels_jsonb, value, obs) ==
    LET call == CallOf("record_to_histogram", name_str, labels_jsonb, value)
    IN  /\ Called(p, call, obs)
        /\ IF validate_inputs(name_str) # "ok"
           THEN Raise(p, validate_inputs(name_str)) /\ UNCHANGED <<local, dsa, notices, stmts, guc, legacy, tracker>>
           ELSE \E b \in bucket_for_outcomes(value) :
                    /\ notices' = [notices EXCEPT ![p] = IF b.notice THEN @ + 1 ELSE @]
                    /\ attach_and_probe(p, call, METRIC_TYPE_HISTOGRAM, b.bucket, 1)
        /\ UNCHANGED <<shared_state, arena, table, spawns, target, stmts, guc, legacy, tracker>>

\* dshash_find_or_insert: take the key's partition lock, find the item
\* or insert one (the key copied by metric_key_copy, the value not
\* initialized), and return holding the lock.
FreeSlot == CHOOSE s \in Slots : ~Used(s) /\ \A t \in Slots : ~Used(t) => s <= t
Matching(key, h) == {s \in Slots : Used(s) /\ table[s].hash = h /\ metric_compare_dshash(key, table[s].key) = 0}
FirstOf(S) == CHOOSE s \in S : \A t \in S : s <= t

\* Variant: the item linked into its bucket before its key is copied.
dshash_find_or_insert_links_first(p) ==
    LET key == op[p].key
        h == metric_hash_dshash(key)
        i == PartitionForHash(h)
        hit == Matching(key, h)
        copy == metric_key_copy(key)
    IN  /\ pc[p] = "find_or_insert"
        /\ CanLockExclusive(p, i)
        /\ IF hit # {}
           THEN /\ lock' = [lock EXCEPT ![i].x = p]
                /\ op' = [op EXCEPT ![p].found = TRUE, ![p].entry = FirstOf(hit)]
                /\ pc' = [pc EXCEPT ![p] = IF op[p].kind = "set_gauge" THEN "set_value" ELSE "load_value"]
                /\ UNCHANGED <<table, arena, result>>
           ELSE IF \A s \in Slots : Used(s)
           THEN /\ RaiseHolding(p, i, "out of memory")
                /\ UNCHANGED <<table, arena>>
           ELSE IF ~copy.ok
           THEN /\ RaiseHolding(p, i, "out of dynamic shared memory for metric labels")
                /\ table' = [table EXCEPT ![FreeSlot] = [key |-> key, value |-> 0, hash |-> h]]
                /\ UNCHANGED arena
           ELSE \E garbage \in UninitValues :
                /\ lock' = [lock EXCEPT ![i].x = p]
                /\ arena' = copy.arena
                /\ table' = [table EXCEPT ![FreeSlot] = [key |-> copy.key, value |-> garbage, hash |-> h]]
                /\ op' = [op EXCEPT ![p].found = FALSE, ![p].entry = FreeSlot]
                /\ pc' = [pc EXCEPT ![p] = IF op[p].kind = "set_gauge" THEN "set_value" ELSE "load_value"]
                /\ UNCHANGED result
        /\ UNCHANGED <<shared_state, dsa, local, calls, spawns, snap, target, notices, stmts, guc, legacy, tracker>>

dshash_find_or_insert(p) ==
    LET key == op[p].key
        h == metric_hash_dshash(key)
        i == PartitionForHash(h)
        hit == Matching(key, h)
        copy == metric_key_copy(key)
    IN  /\ pc[p] = "find_or_insert"
        /\ CanLockExclusive(p, i)
        /\ IF hit # {}
           THEN /\ lock' = [lock EXCEPT ![i].x = p]
                /\ op' = [op EXCEPT ![p].found = TRUE, ![p].entry = FirstOf(hit)]
                /\ pc' = [pc EXCEPT ![p] = IF op[p].kind = "set_gauge" THEN "set_value" ELSE "load_value"]
                /\ UNCHANGED <<table, arena, result>>
           ELSE IF \A s \in Slots : Used(s)
           THEN /\ RaiseHolding(p, i, "out of memory")
                /\ UNCHANGED <<table, arena>>
           ELSE IF ~copy.ok
           THEN /\ RaiseHolding(p, i, "out of dynamic shared memory for metric labels")
                /\ UNCHANGED <<table, arena>>
           ELSE \E garbage \in UninitValues :
                /\ lock' = [lock EXCEPT ![i].x = p]
                /\ arena' = copy.arena
                /\ table' = [table EXCEPT ![FreeSlot] = [key |-> copy.key, value |-> garbage, hash |-> h]]
                /\ op' = [op EXCEPT ![p].found = FALSE, ![p].entry = FreeSlot]
                /\ pc' = [pc EXCEPT ![p] = IF op[p].kind = "set_gauge" THEN "set_value" ELSE "load_value"]
                /\ UNCHANGED result
        /\ UNCHANGED <<shared_state, dsa, local, calls, spawns, snap, target, notices, stmts, guc, legacy, tracker>>

\* Variant: the value of a new entry not set to 0 before the add.
increment_by_load_no_init(p) ==
    LET s == op[p].entry
    IN  /\ pc[p] = "load_value"
        /\ op' = [op EXCEPT ![p].tmp = table[s].value + op[p].amount]
        /\ pc' = [pc EXCEPT ![p] = "store_value"]
        /\ UNCHANGED <<shared_state, dsa, arena, table, lock, local, result, calls, spawns, snap, target, notices, stmts, guc, legacy, tracker>>

\* increment_by: if (!found) entry->value = 0; then the load and the add
\* of entry->value += amount.
increment_by_load(p) ==
    LET s == op[p].entry
        start == IF op[p].found THEN table[s].value ELSE 0
    IN  /\ pc[p] = "load_value"
        /\ table' = [table EXCEPT ![s].value = start]
        /\ op' = [op EXCEPT ![p].tmp = start + op[p].amount]
        /\ pc' = [pc EXCEPT ![p] = "store_value"]
        /\ UNCHANGED <<shared_state, dsa, arena, lock, local, result, calls, spawns, snap, target, notices, stmts, guc, legacy, tracker>>

\* increment_by: the store of entry->value += amount, result =
\* entry->value, dshash_release_lock and the return.  After its first
\* increment_by pmetrics_record_to_histogram goes on to the second, on
\* the histogram_sum key with (int64)value.
increment_by_store(p) ==
    LET s == op[p].entry
        i == PartitionForHash(table[s].hash)
    IN  /\ pc[p] = "store_value"
        /\ table' = [table EXCEPT ![s].value = op[p].tmp]
        /\ lock' = Released(p, i)
        /\ IF op[p].kind = "record_to_histogram" /\ op[p].stage = 1
           THEN /\ op' = [op EXCEPT ![p].bucket_count = op[p].tmp,
                                     ![p].key = init_metric_key(op[p].name, op[p].labels, METRIC_TYPE_HISTOGRAM_SUM, 0),
                                     ![p].amount = TruncToInt64(op[p].arg),
                                     ![p].stage = 2, ![p].found = FALSE, ![p].entry = 0, ![p].tmp = 0]
                /\ pc' = [pc EXCEPT ![p] = "find_or_insert"]
                /\ UNCHANGED result
           ELSE Return(p, IF op[p].kind = "record_to_histogram" THEN op[p].bucket_count ELSE op[p].tmp, <<>>)
        /\ UNCHANGED <<shared_state, dsa, arena, local, calls, spawns, snap, target, notices, stmts, guc, legacy, tracker>>

\* Variant: the value added to what is stored.
set_gauge_store_adds(p) ==
    LET s == op[p].entry
        i == PartitionForHash(table[s].hash)
        sum == (IF op[p].found THEN table[s].value ELSE 0) + op[p].amount
    IN  /\ pc[p] = "set_value"
        /\ table' = [table EXCEPT ![s].value = sum]
        /\ lock' = Released(p, i)
        /\ Return(p, sum, <<>>)
        /\ UNCHANGED <<shared_state, dsa, arena, local, calls, spawns, snap, target, notices, stmts, guc, legacy, tracker>>

\* pmetrics_set_gauge: entry->value = value, result = entry->value,
\* dshash_release_lock and the return.
set_gauge_store(p) ==
    LET s == op[p].entry
        i == PartitionForHash(table[s].hash)
    IN  /\ pc[p] = "set_value"
        /\ table' = [table EXCEPT ![s].value = op[p].amount]
        /\ lock' = Released(p, i)
        /\ Return(p, op[p].amount, <<>>)
        /\ UNCHANGED <<shared_state, dsa, arena, local, calls, spawns, snap, target, notices, stmts, guc, legacy, tracker>>

\* ------------------------------------------------- sequential scans
\* dshash_seq_next moving to partition next: lock it, then release the
\* partition held before; dshash_seq_term after the last partition
\* releases that one too.
ReleaseIn(l, p, i) == [l EXCEPT ![i] = [x |-> IF l[i].x = p THEN 0 ELSE l[i].x, s |-> l[i].s \ {p}]]
\* Variant: no dshash_seq_term after the last partition.
SeqLocks_no_term(p, cur, next, exclusive) ==
    LET l1 == IF exclusive THEN [lock EXCEPT ![next].x = p]
              ELSE [lock EXCEPT ![next].s = lock[next].s \cup {p}]
    IN  IF cur > 0 THEN ReleaseIn(l1, p, cur) ELSE l1
SeqLocks(p, cur, next, exclusive) ==
    LET l1 == IF exclusive THEN [lock EXCEPT ![next].x = p]
              ELSE [lock EXCEPT ![next].s = lock[next].s \cup {p}]
        l2 == IF cur > 0 THEN ReleaseIn(l1, p, cur) ELSE l1
    IN  IF next = NumPartitions THEN ReleaseIn(l2, p, next) ELSE l2
InPartition(i) == {s \in Slots : Used(s) /\ PartitionForHash(table[s].hash) = i}

\* A scanning operation up to its dshash_seq_init: get_metrics_table.
begin_scan(p, call) ==
    IF get_metrics_table_error(p) # "ok"
    THEN /\ Raise(p, get_metrics_table_error(p))
         /\ UNCHANGED <<local, dsa>>
    ELSE /\ get_metrics_table(p)
         /\ pc' = [pc EXCEPT ![p] = "seq_scan"]
         /\ op' = [op EXCEPT ![p] = [NoOp EXCEPT !.kind = call.kind, !.name = call.name,
                                                 !.labels = call.labels, !.arg = call.arg]]
         /\ result' = [result EXCEPT ![p] = NoResult]
         /\ UNCHANGED lock

pmetrics_delete_metric(p, name_str, labels_jsonb, obs) ==
    LET call == CallOf("delete_metric", name_str, labels_jsonb, 0)
    IN  /\ Called(p, call, obs)
        /\ IF validate_inputs(name_str) # "ok"
           THEN Raise(p, validate_inputs(name_str)) /\ UNCHANGED <<local, dsa>>
           ELSE begin_scan(p, call)
        /\ UNCHANGED <<shared_state, arena, table, spawns, target, notices, stmts, guc, legacy, tracker>>

\* Variant: the test without its case for two NULL labels.
delete_matches_without_null_case(s, name_str, labels_jsonb) ==
    LET entry_labels == get_labels_jsonb(table[s].key)
    IN  /\ strcmp(table[s].key.name, name_str) = 0
        /\ labels_jsonb # NULL
        /\ entry_labels # NULL
        /\ compareJsonbContainers(labels_jsonb, entry_labels) = 0

\* The test of delete_metrics_by_name_labels on one entry.
delete_matches(s, name_str, labels_jsonb) ==
    LET entry_labels == get_labels_jsonb(table[s].key)
    IN  /\ strcmp(table[s].key.name, name_str) = 0
        /\ \/ labels_jsonb = NULL /\ entry_labels = NULL
           \/ /\ labels_jsonb # NULL
              /\ entry_labels # NULL
              /\ compareJsonbContainers(labels_jsonb, entry_labels) = 0

\* Variant: no dsa_free.
FreedLabels_none(S) == arena

\* dsa_free of the labels of the entries in S.
FreedLabels(S) ==
    [h \in Handles |->
        IF \E s \in S : table[s].key.labels_location = LABELS_DSA /\ table[s].key.labels = h
        THEN Free ELSE arena[h]]

\* deleted_count++ for every entry deleted, over the whole scan.
\* Variant: the count starts again with every partition.
deleted_count_per_partition(count, doomed) == Cardinality(doomed)
deleted_count(count, doomed) == count + Cardinality(doomed)

\* delete_metrics_by_name_labels: the loop over one partition.
delete_metrics_by_name_labels(p) ==
    LET next == op[p].cur + 1
        doomed == {s \in InPartition(next) : delete_matches(s, op[p].name, op[p].labels)}
        n == deleted_count(op[p].count, doomed)
    IN  /\ pc[p] = "seq_scan"
        /\ op[p].kind = "delete_metric"
        /\ CanLockExclusive(p, next)
        /\ lock' = SeqLocks(p, op[p].cur, next, TRUE)
        /\ arena' = FreedLabels(doomed)
        /\ table' = [s \in Slots |-> IF s \in doomed THEN NoEntry ELSE table[s]]
        /\ IF next = NumPartitions
           THEN Return(p, n, <<>>)
           ELSE /\ op' = [op EXCEPT ![p].cur = next, ![p].count = n]
                /\ UNCHANGED <<pc, result>>
        /\ UNCHANGED <<shared_state, dsa, local, calls, spawns, snap, target, notices, stmts, guc, legacy, tracker>>

pmetrics_clear_metrics(p, obs) ==
    LET call == CallOf("clear_metrics", <<>>, NULL, 0)
    IN  /\ Called(p, call, obs)
        /\ begin_scan(p, call)
        /\ UNCHANGED <<shared_state, arena, table, spawns, target, notices, stmts, guc, legacy, tracker>>

\* pmetrics_clear_metrics: the loop over one partition.
clear_metrics_scan(p) ==
    LET next == op[p].cur + 1
        doomed == InPartition(next)
        n == deleted_count(op[p].count, doomed)
    IN  /\ pc[p] = "seq_scan"
        /\ op[p].kind = "clear_metrics"
        /\ CanLockExclusive(p, next)
        /\ lock' = SeqLocks(p, op[p].cur, next, TRUE)
        /\ arena' = FreedLabels(doomed)
        /\ table' = [s \in Slots |-> IF s \in doomed THEN NoEntry ELSE table[s]]
        /\ IF next = NumPartitions
           THEN Return(p, n, <<>>)
           ELSE /\ op' = [op EXCEPT ![p].cur = next, ![p].count = n]
                /\ UNCHANGED <<pc, result>>
        /\ UNCHANGED <<shared_state, dsa, local, calls, spawns, snap, target, notices, stmts, guc, legacy, tracker>>

\* list_metrics, first call: the copy of one entry into backend-local
\* memory, its labels copied out of the area.
\* Variant: the row keeps the entry's key as it is, labels reference
\* included, instead of a copy of the labels.
MaterializedRow_by_reference(s) ==
    [name |-> table[s].key.name, labels_location |-> table[s].key.labels_location, labels |-> NULL,
     type |-> table[s].key.type, bucket |-> table[s].key.bucket, value |-> table[s].value]
MaterializedRow(s) ==
    LET key == table[s].key
    IN  IF key.labels_location = LABELS_DSA /\ key.labels # InvalidDsaPointer
        THEN [name |-> key.name, labels_location |-> LABELS_LOCAL, labels |-> dsa_get_address(key.labels),
              type |-> key.type, bucket |-> key.bucket, value |-> table[s].value]
        ELSE [name |-> key.name, labels_location |-> key.labels_location, labels |-> key.labels,
              type |-> key.type, bucket |-> key.bucket, value |-> table[s].value]

RECURSIVE MaterializedRows(_)
MaterializedRows(S) ==
    IF S = {} THEN <<>>
    ELSE <<MaterializedRow(FirstOf(S))>> \o MaterializedRows(S \ {FirstOf(S)})

list_metrics(p, obs) ==
    LET call == CallOf("list_metrics", <<>>, NULL, 0)
    IN  /\ Called(p, call, obs)
        /\ begin_scan(p, call)
        /\ UNCHANGED <<shared_state, arena, table, spawns, target, notices, stmts, guc, legacy, tracker>>

\* list_metrics, first call: the loop over one partition, under the
\* shared partition lock; after the last partition dshash_seq_term, then
\* user_fctx = metrics, max_calls = count, call_cntr = 0.
list_metrics_scan(p) ==
    LET next == op[p].cur + 1
        rows == op[p].rows \o MaterializedRows(InPartition(next))
    IN  /\ pc[p] = "seq_scan"
        /\ op[p].kind = "list_metrics"
        /\ CanLockShared(p, next)
        /\ lock' = SeqLocks(p, op[p].cur, next, FALSE)
        /\ IF next = NumPartitions
           THEN /\ op' = [op EXCEPT ![p].cur = 0, ![p].rows = rows, ![p].count = Len(rows)]
                /\ pc' = [pc EXCEPT ![p] = "srf_percall"]
           ELSE /\ op' = [op EXCEPT ![p].cur = next, ![p].rows = rows]
                /\ UNCHANGED pc
        /\ UNCHANGED <<shared_state, dsa, arena, table, local, result, calls, spawns, snap, target, notices, stmts, guc, legacy, tracker>>

\* list_metrics, every call: the tuple made of metrics[call_cntr].
type_str(type) ==
    CASE type = METRIC_TYPE_COUNTER -> "counter"
      [] type = METRIC_TYPE_GAUGE -> "gauge"
      [] type = METRIC_TYPE_HISTOGRAM -> "histogram"
      [] type = METRIC_TYPE_HISTOGRAM_SUM -> "histogram_sum"
      [] OTHER -> "unknown"
heap_form_tuple(metric) ==
    [name |-> metric.name,
     labels |-> IF metric.labels_location = LABELS_LOCAL /\ metric.labels # NULL THEN metric.labels ELSE NULL,
     type |-> type_str(metric.type), bucket |-> metric.bucket, value |-> metric.value]

\* list_metrics, every call: SRF_RETURN_NEXT with the row at call_cntr,
\* SRF_RETURN_DONE after the last.  Between two calls the backend holds
\* the rows in its own memory.
list_metrics_percall(p) ==
    /\ pc[p] = "srf_percall"
    /\ IF op[p].cur < op[p].count
       THEN /\ result' = [result EXCEPT ![p] = ResultOf("row", op[p].cur + 1,
                                                        Append(result[p].rows, heap_form_tuple(op[p].rows[op[p].cur + 1])))]
            /\ op' = [op EXCEPT ![p].cur = op[p].cur + 1]
            /\ UNCHANGED pc
       ELSE Return(p, op[p].count, result[p].rows)
    /\ UNCHANGED <<shared_state, dsa, arena, table, lock, local, calls, spawns, snap, target, notices, stmts, guc, legacy, tracker>>

\* The executor stops calling list_metrics before its last row (a LIMIT,
\* a closed cursor): the rest of the rows is dropped with the query.
list_metrics_abandoned(p) ==
    /\ pc[p] = "srf_percall"
    /\ op[p].cur < op[p].count
    /\ pc' = [pc EXCEPT ![p] = "idle"]
    /\ op' = [op EXCEPT ![p] = NoOp]
    /\ result' = [result EXCEPT ![p] = ResultOf("abandoned", op[p].cur, result[p].rows)]
    /\ UNCHANGED <<shared_state, dsa, arena, table, lock, local, calls, spawns, snap, target, notices, stmts, guc, legacy, tracker>>

\* ------------------------------------------------- SQL functions
\* pmetrics.enabled is PGC_SIGHUP: a reload of the configuration sets it
\* in a backend between two of its commands.
reload_config(p, value) ==
    /\ pc[p] = "idle"
    /\ local[p].pmetrics_enabled # value
    /\ local' = [local EXCEPT ![p].pmetrics_enabled = value]
    /\ UNCHANGED <<shared_state, dsa, arena, table, lock, pc, op, result, calls, spawns, snap, target, notices, stmts, guc, legacy, tracker>>

\* PG_RETURN_NULL of a SQL function.
ReturnNull(p) ==
    /\ pc' = [pc EXCEPT ![p] = "idle"]
    /\ op' = [op EXCEPT ![p] = NoOp]
    /\ result' = [result EXCEPT ![p] = ResultOf("null", 0, <<>>)]
    /\ UNCHANGED <<lock, local, dsa>>

increment_counter(p, name_str, labels_jsonb, obs) ==
    LET call == CallOf("increment_counter", name_str, labels_jsonb, 1)
    IN  /\ Entered(p, call, obs, TRUE)
        /\ IF ~local[p].pmetrics_enabled
           THEN ReturnNull(p)
           ELSE IF validate_inputs(name_str) # "ok"
           THEN Raise(p, validate_inputs(name_str)) /\ UNCHANGED <<local, dsa>>
           ELSE attach_and_probe(p, call, METRIC_TYPE_COUNTER, 0, 1)
        /\ UNCHANGED <<shared_state, arena, table, spawns, target, notices, stmts, guc, legacy, tracker>>

increment_counter_by(p, name_str, labels_jsonb, increment, obs) ==
    LET call == CallOf("increment_counter_by", name_str, labels_jsonb, increment)
    IN  /\ Entered(p, call, obs, TRUE)
        /\ IF ~local[p].pmetrics_enabled
           THEN ReturnNull(p)
           ELSE IF validate_inputs(name_str) # "ok"
           THEN Raise(p, validate_inputs(name_str)) /\ UNCHANGED <<local, dsa>>
           ELSE IF increment <= 0
           THEN Raise(p, "increment must be greater than 0") /\ UNCHANGED <<local, dsa>>
           ELSE attach_and_probe(p, call, METRIC_TYPE_COUNTER, 0, increment)
        /\ UNCHANGED <<shared_state, arena, table, spawns, target, notices, stmts, guc, legacy, tracker>>

set_gauge(p, name_str, labels_jsonb, new_value, obs) ==
    LET call == CallOf("set_gauge", name_str, labels_jsonb, new_value)
    IN  /\ Entered(p, call, obs, TRUE)
        /\ IF ~local[p].pmetrics_enabled
           THEN ReturnNull(p)
           ELSE IF validate_inputs(name_str) # "ok"
           THEN Raise(p, validate_inputs(name_str)) /\ UNCHANGED <<local, dsa>>
           ELSE attach_and_probe(p, call, METRIC_TYPE_GAUGE, 0, new_value)
        /\ UNCHANGED <<shared_state, arena, table, spawns, target, notices, stmts, guc, legacy, tracker>>

add_to_gauge(p, name_str, labels_jsonb, increment, obs) ==
    LET call == CallOf("add_to_gauge", name_str, labels_jsonb, increment)
    IN  /\ Entered(p, call, obs, TRUE)
        /\ IF ~local[p].pmetrics_enabled
           THEN ReturnNull(p)
           ELSE IF validate_inputs(name_str) # "ok"
           THEN Raise(p, validate_inputs(name_str)) /\ UNCHANGED <<local, dsa>>
           ELSE IF increment = 0
           THEN Raise(p, "value can't be 0") /\ UNCHANGED <<local, dsa>>
           ELSE attach_and_probe(p, call, METRIC_TYPE_GAUGE, 0, increment)
        /\ UNCHANGED <<shared_state, arena, table, spawns, target, notices, stmts, guc, legacy, tracker>>

record_to_histogram(p, name_str, labels_jsonb, value, obs) ==
    LET call == CallOf("record_to_histogram", name_str, labels_jsonb, value)
    IN  /\ Entered(p, call, obs, TRUE)
        /\ IF ~local[p].pmetrics_enabled
           THEN ReturnNull(p) /\ UNCHANGED notices
           ELSE IF validate_inputs(name_str) # "ok"
           THEN Raise(p, validate_inputs(name_str)) /\ UNCHANGED <<local, dsa, notices, stmts, guc, legacy, tracker>>
           ELSE \E b \in bucket_for_outcomes(value) :
                    /\ notices' = [notices EXCEPT ![p] = IF b.notice THEN @ + 1 ELSE @]
                    /\ attach_and_probe(p, call, METRIC_TYPE_HISTOGRAM, b.bucket, 1)
        /\ UNCHANGED <<shared_state, arena, table, spawns, target, stmts, guc, legacy, tracker>>

\* Variant: delete_metric without its test of pmetrics_enabled.
delete_metric_ungated(p, name_str, labels_jsonb, obs) ==
    LET call == CallOf("delete_metric", name_str, labels_jsonb, 0)
    IN  /\ Entered(p, call, obs, TRUE)
        /\ IF validate_inputs(name_str) # "ok"
           THEN Raise(p, validate_inputs(name_str)) /\ UNCHANGED <<local, dsa>>
           ELSE begin_scan(p, call)
        /\ UNCHANGED <<shared_state, arena, table, spawns, target, notices, stmts, guc, legacy, tracker>>

delete_metric(p, name_str, labels_jsonb, obs) ==
    LET call == CallOf("delete_metric", name_str, labels_jsonb, 0)
    IN  /\ Entered(p, call, obs, TRUE)
        /\ IF ~local[p].pmetrics_enabled
           THEN ReturnNull(p)
           ELSE IF validate_inputs(name_str) # "ok"
           THEN Raise(p, validate_inputs(name_str)) /\ UNCHANGED <<local, dsa>>
           ELSE begin_scan(p, call)
        /\ UNCHANGED <<shared_state, arena, table, spawns, target, notices, stmts, guc, legacy, tracker>>

\* clear_metrics calls pmetrics_clear_metrics whatever pmetrics_enabled is.
clear_metrics(p, obs) ==
    LET call == CallOf("clear_metrics", <<>>, NULL, 0)
    IN  /\ Entered(p, call, obs, TRUE)
        /\ begin_scan(p, call)
        /\ UNCHANGED <<shared_state, arena, table, spawns, target, notices, stmts, guc, legacy, tracker>>

\* ------------------------------------------------------ specifications
\* The arguments callers pass: D.names, D.labels, D.counter_amounts,
\* D.gauge_amounts, D.gauge_values, D.histogram_values; D.spawns
\* backends are forked in all.
Calls(p, obs, D) ==
    \/ \E n \in D.names, l \in D.labels : pmetrics_increment_counter(p, n, l, obs)
    \/ \E n \in D.names, l \in D.labels, a \in D.counter_amounts : pmetrics_increment_counter_by(p, n, l, a, obs)
    \/ \E n \in D.names, l \in D.labels, a \in D.gauge_amounts : pmetrics_add_to_gauge(p, n, l, a, obs)
    \/ \E n \in D.names, l \in D.labels, v \in D.gauge_values : pmetrics_set_gauge(p, n, l, v, obs)
    \/ \E n \in D.names, l \in D.labels, v \in D.histogram_values : pmetrics_record_to_histogram(p, n, l, v, obs)
    \/ \E n \in D.names, l \in D.labels : pmetrics_delete_metric(p, n, l, obs)
    \/ pmetrics_clear_metrics(p, obs)
    \/ list_metrics(p, obs)

Backend(p, obs, D) ==
    \/ Spawn(p, D.spawns)
    \/ cleanup_metrics_backend(p)
    \/ calls[p] < MaxCalls /\ Calls(p, obs, D)
    \/ dshash_find_or_insert(p)
    \/ increment_by_load(p)
    \/ increment_by_store(p)
    \/ set_gauge_store(p)
    \/ delete_metrics_by_name_labels(p)
    \/ clear_metrics_scan(p)
    \/ list_metrics_scan(p)
    \/ list_metrics_percall(p)
    \/ list_metrics_abandoned(p)

\* Backends running concurrently.
ConcurrentArgs ==
    [names |-> {NameA}, labels |-> {NULL, LabelsK}, counter_amounts |-> {2},
     gauge_amounts |-> {-1}, gauge_values |-> {5}, histogram_values |-> {5}, spawns |-> MaxSpawns]
Next == metrics_shmem_startup \/ \E p \in Procs : Backend(p, FALSE, ConcurrentArgs)
Spec == Init /\ [][Next]_vars

\* One backend, its caller keeping track of what it saw.
SequentialArgs ==
    [names |-> {NameA, NameB}, labels |-> {NULL, EmptyObj, LabelsK, LabelsKz, LabelsQ}, counter_amounts |-> {2},
     gauge_amounts |-> {-1}, gauge_values |-> {3, 5}, histogram_values |-> {-3, -1, 1, 3, 5, 20},
     spawns |-> 1]
NextSeq == metrics_shmem_startup \/ Backend(1, TRUE, SequentialArgs)
SpecSeq == Init /\ [][NextSeq]_vars

\* One backend after the other: each exits before the next is forked.
LifeArgs ==
    [names |-> {NameA}, labels |-> {NULL, LabelsK}, counter_amounts |-> {2},
     gauge_amounts |-> {-1}, gauge_values |-> {5}, histogram_values |-> {5}, spawns |-> MaxSpawns]
NextLife == metrics_shmem_startup \/ Backend(1, TRUE, LifeArgs)
SpecLife == Init /\ [][NextLife]_vars

\* One backend called through the SQL functions and through the C
\* functions, with arguments that validation rejects among the rest, and
\* pmetrics.enabled reloaded between its calls.  The SQL functions are
\* called with non-null arguments.
LongName == [i \in 1..NAMEDATALEN |-> 1]
SqlArgs ==
    [names |-> {NameA, NULL, LongName}, labels |-> {NULL, LabelsK}, counter_amounts |-> {2, 0, -1},
     gauge_amounts |-> {-1, 0}, gauge_values |-> {5}, histogram_values |-> {5}, spawns |-> 1]
SqlCalls(p, obs, D) ==
    \/ \E n \in D.names \ {NULL}, l \in D.labels \ {NULL} : increment_counter(p, n, l, obs)
    \/ \E n \in D.names \ {NULL}, l \in D.labels \ {NULL}, a \in D.counter_amounts : increment_counter_by(p, n, l, a, obs)
    \/ \E n \in D.names \ {NULL}, l \in D.labels \ {NULL}, v \in D.gauge_values : set_gauge(p, n, l, v, obs)
    \/ \E n \in D.names \ {NULL}, l \in D.labels \ {NULL}, a \in D.gauge_amounts : add_to_gauge(p, n, l, a, obs)
    \/ \E n \in D.names \ {NULL}, l \in D.labels \ {NULL}, v \in D.histogram_values : record_to_histogram(p, n, l, v, obs)
    \/ \E n \in D.names \ {NULL}, l \in D.labels \ {NULL} : delete_metric(p, n, l, obs)
    \/ clear_metrics(p, obs)
NextSql ==
    \/ metrics_shmem_startup
    \/ \E value \in BOOLEAN : reload_config(1, value)
    \/ calls[1] < MaxCalls /\ SqlCalls(1, TRUE, SqlArgs)
    \/ Backend(1, TRUE, SqlArgs)
SpecSql == Init /\ [][NextSql]_vars

\* A backend that enumerates, its caller keeping track, and a second
\* backend that writes: the second one runs only while the first is idle
\* or between two rows of its enumeration, and the first one starts a
\* call only while the second is idle.
NextEnum ==
    \/ metrics_shmem_startup
    \/ (pc[2] \in {"none", "idle", "exited"} \/ pc[1] = "srf_percall") /\ Backend(1, TRUE, ConcurrentArgs)
    \/ pc[1] \in {"none", "idle", "exited", "srf_percall"} /\ Backend(2, FALSE, ConcurrentArgs)
SpecEnum == Init /\ [][NextEnum]_vars

\* metrics_shmem_startup calls the hook that was installed before it
\* first: code of a library loaded before pmetrics runs, and may call
\* the functions of pmetrics.h, while shared_state is still NULL.
prev_shmem_startup_hook(p) ==
    /\ pc[p] = "none"
    /\ ~shared_state.exists
    /\ pc' = [pc EXCEPT ![p] = "idle"]
    /\ UNCHANGED <<shared_state, dsa, arena, table, lock, local, op, result, calls, spawns, snap, target, notices, stmts, guc, legacy, tracker>>
NextEarly == metrics_shmem_startup \/ prev_shmem_startup_hook(1) \/ Backend(1, TRUE, LifeArgs)
SpecEarly == Init /\ [][NextEarly]_vars

\* One backend after the other, each with an exit callback of another
\* library registered before the first call of pmetrics.
NextExit == metrics_shmem_startup \/ shmem_exit(1) \/ Backend(1, TRUE, LifeArgs)
SpecExit == Init /\ [][NextExit]_vars

\* One backend after the other, the memory of a backend running out as
\* it attaches.
NextAttach ==
    \/ metrics_shmem_startup
    \/ calls[1] < MaxCalls /\ get_metrics_table_out_of_memory(1, TRUE)
    \/ Backend(1, TRUE, LifeArgs)
SpecAttach == Init /\ [][NextAttach]_vars

\* One backend that records observations n/ValDen, n from below zero to
\* MaxObserved, its caller keeping track.
BucketArgs ==
    [names |-> {NameA}, labels |-> {NULL}, counter_amounts |-> {2}, gauge_amounts |-> {-1},
     gauge_values |-> {5}, histogram_values |-> (-2)..MaxObserved, spawns |-> 1]
NextBucket == metrics_shmem_startup \/ Backend(1, TRUE, BucketArgs)
SpecBucket == Init /\ [][NextBucket]_vars

\* Backends that each increment one counter, the same for all,
\* MaxIncrements times, on a store that has just been started.
Started ==
    /\ shared_state = InitializedState([NoDsa EXCEPT !.handle = 1])
    /\ dsa = [exists |-> TRUE, pinned |-> TRUE, refcnt |-> 0, handle |-> 1]
    /\ arena = EmptyArena
    /\ table = EmptyTable
    /\ lock = NoLocks
    /\ local = [p \in Procs |-> NoLocal]
    /\ op = [p \in Procs |-> NoOp]
    /\ result = [p \in Procs |-> NoResult]
    /\ calls = [p \in Procs |-> 0]
    /\ snap = NoSnap
    /\ notices = [p \in Procs |-> 0]
    /\ stmts = NoStmts
    /\ guc = NoGuc
    /\ legacy = NoLegacy
    /\ tracker = NoTracker
InitIncr ==
    /\ Started
    /\ spawns \in 1..NumProcs
    /\ pc \in {f \in [Procs -> {"none", "idle"}] : Cardinality({p \in Procs : f[p] = "idle"}) = spawns}
    /\ target \in [name : SequentialArgs.names, labels : SequentialArgs.labels]
RepeatIncrement(p) ==
    /\ calls[p] < MaxIncrements
    /\ pmetrics_increment_counter(p, target.name, target.labels, FALSE)
NextIncr ==
    \E p \in Procs :
        \/ RepeatIncrement(p)
        \/ dshash_find_or_insert(p)
        \/ increment_by_load(p)
        \/ increment_by_store(p)
SpecIncr == InitIncr /\ [][NextIncr]_vars

\* --------------------------------------------------- src/pmetrics.c
\* increment_by: LWLockAcquire(metrics_tbl_lock, LW_EXCLUSIVE), which
\* waits while the lock is held (by whoever, the caller included),
\* hash_search(HASH_ENTER), the addition, LWLockRelease.
legacy_increment_by(p, name_str, amount) ==
    /\ pc[p] = "idle"
    /\ legacy.lock = 0
    /\ legacy.metrics_tbl[name_str] < MaxIncrements
    /\ legacy' = [legacy EXCEPT !.metrics_tbl[name_str] = (IF @ = -1 THEN 0 ELSE @) + amount]
    /\ UNCHANGED <<shared_state, dsa, arena, table, lock, pc, local, op, result, calls, spawns, snap, target, notices, stmts, guc, tracker>>

\* list_metrics, one call of the set-returning function: the first call
\* takes the lock and starts the scan; every call returns the next entry
\* or, the scan finished, releases the lock and is done.
legacy_list_metrics(p) ==
    LET first == ~legacy.scan[p].open
        left == IF first THEN {n \in LegacyNames : legacy.metrics_tbl[n] # -1} ELSE legacy.scan[p].left
    IN  /\ pc[p] = "idle"
        /\ first => legacy.lock = 0
        /\ IF left # {}
           THEN \E metric \in left :
                    legacy' = [legacy EXCEPT !.lock = p, !.scan[p] = [open |-> TRUE, left |-> left \ {metric}]]
           ELSE legacy' = [legacy EXCEPT !.lock = 0, !.scan[p] = [open |-> FALSE, left |-> {}]]
        /\ UNCHANGED <<shared_state, dsa, arena, table, lock, pc, local, op, result, calls, spawns, snap, target, notices, stmts, guc, tracker>>

\* The executor stops calling list_metrics before the call that is done
\* (a LIMIT, a closed cursor): the function's context is dropped at the
\* end of the query, no code of list_metrics runs.
legacy_list_metrics_abandoned(p) ==
    /\ pc[p] = "idle"
    /\ legacy.scan[p].open
    /\ legacy' = [legacy EXCEPT !.scan[p] = [open |-> FALSE, left |-> {}]]
    /\ UNCHANGED <<shared_state, dsa, arena, table, lock, pc, local, op, result, calls, spawns, snap, target, notices, stmts, guc, tracker>>

\* An error raised in the backend, or its exit: error recovery releases
\* every LWLock the backend holds.
legacy_abort(p) ==
    /\ pc[p] = "idle"
    /\ legacy' = [legacy EXCEPT !.lock = IF @ = p THEN 0 ELSE @, !.scan[p] = [open |-> FALSE, left |-> {}]]
    /\ UNCHANGED <<shared_state, dsa, arena, table, lock, pc, local, op, result, calls, spawns, snap, target, notices, stmts, guc, tracker>>

InitLegacy ==
    /\ Started
    /\ spawns = NumProcs
    /\ pc = [p \in Procs |-> "idle"]
    /\ target = NoTarget
NextLegacy ==
    \E p \in Procs :
        \/ \E n \in LegacyNames, amount \in {1, 2} : legacy_increment_by(p, n, amount)
        \/ legacy_list_metrics(p)
        \/ legacy_list_metrics_abandoned(p)
        \/ legacy_abort(p)
SpecLegacy == InitLegacy /\ [][NextLegacy]_vars

\* ------------------------------------------------- the settings given
\* Settings an administrator may write.  DefineCustomRealVariable takes
\* pmetrics.bucket_variability from 0.01 to 1.0, both included;
\* DefineCustomIntVariable takes pmetrics.buckets_upper_bound from 1 to
\* INT_MAX.  The upper bounds tried are ones whose rounded bound an int
\* holds.
Variabilities == {<<0, 1>>, <<1, 5>>, <<1, 3>>, <<1, 2>>, <<1, 1>>, <<3, 2>>}
UpperBounds == {0, 1, 2, 5}
AcceptedVariability(v) == 100 * v[1] >= v[2] /\ v[1] <= v[2]
AcceptedUpperBound(b) == b >= 1 /\ b <= INT_MAX

\* A double that is a rational <<numerator, denominator>> or, with a
\* zero denominator, the infinity a division by zero gives.
Infinite(g) == g[2] = 0
\* ceil(log(v) / log(g)) for v = vn/vd >= 1; log(g) of the infinity is
\* the infinity, the quotient 0.
RECURSIVE LeastExpOf(_, _, _, _)
LeastExpOf(g, vn, vd, k) ==
    IF Pow(g[1], k) * vd >= vn * Pow(g[2], k) THEN k ELSE LeastExpOf(g, vn, vd, k + 1)
CeilLogOf(g, vn, vd) == IF Infinite(g) THEN 0 ELSE LeastExpOf(g, vn, vd, 0)
\* pow(g, k) with its fraction dropped; pow(infinity, 0) is 1.
PowOf(g, k) == IF k = 0 THEN 1 ELSE IF Infinite(g) THEN INT_MAX + 1 ELSE Pow(g[1], k) \div Pow(g[2], k)

\* _PG_init: gamma_val, log_gamma, max_bucket_exp and the rounded
\* buckets_upper_bound.
PG_init ==
    /\ ~guc.loaded
    /\ LET gamma == <<guc.bucket_variability[2] + guc.bucket_variability[1],
                      guc.bucket_variability[2] - guc.bucket_variability[1]>>
           exp == CeilLogOf(gamma, guc.configured, 1)
       IN  \E rounded \in DoubleToInt(PowOf(gamma, exp)) :
               guc' = [guc EXCEPT !.loaded = TRUE, !.gamma_val = gamma, !.buckets_upper_bound = rounded]
    /\ UNCHANGED <<shared_state, dsa, arena, table, lock, pc, local, op, result, calls, spawns, snap, target, notices, stmts, legacy, tracker>>

\* bucket_for(value) under the settings loaded, value = n/ValDen: the
\* bucket it returns is added to those seen.
bucket_for_loaded(n) ==
    /\ guc.loaded
    /\ LET bucket == IF n < ValDen THEN 0 ELSE CeilLogOf(guc.gamma_val, n, ValDen)
       IN  \E this_bucket_upper_bound \in DoubleToInt(PowOf(guc.gamma_val, bucket)) :
               guc' = [guc EXCEPT !.returned = @ \cup
                          {IF this_bucket_upper_bound > guc.buckets_upper_bound
                           THEN guc.buckets_upper_bound ELSE this_bucket_upper_bound}]
    /\ UNCHANGED <<shared_state, dsa, arena, table, lock, pc, local, op, result, calls, spawns, snap, target, notices, stmts, legacy, tracker>>

\* list_histogram_buckets: 0, then (int)pow(gamma_val, i) for i from 1
\* to max_bucket_exp, a value equal to the one before it left out.
RECURSIVE UniqueBuckets(_, _, _, _)
UniqueBuckets(g, i, max_exp, buckets) ==
    IF i > max_exp THEN buckets
    ELSE LET bucket_value == PowOf(g, i)
         IN  UniqueBuckets(g, i + 1, max_exp,
                           IF bucket_value # buckets[Len(buckets)] THEN Append(buckets, bucket_value) ELSE buckets)
list_histogram_buckets ==
    /\ guc.loaded
    /\ guc.buckets_upper_bound >= 1
    /\ guc' = [guc EXCEPT !.listed =
                   UniqueBuckets(guc.gamma_val, 1, CeilLogOf(guc.gamma_val, guc.buckets_upper_bound, 1), <<0>>)]
    /\ UNCHANGED <<shared_state, dsa, arena, table, lock, pc, local, op, result, calls, spawns, snap, target, notices, stmts, legacy, tracker>>

\* A server starting with each accepted pair of settings, observations
\* n/ValDen recorded and the buckets listed.
InitConfig ==
    /\ shared_state = NoSharedState
    /\ dsa = NoDsa
    /\ arena = EmptyArena
    /\ table = EmptyTable
    /\ lock = NoLocks
    /\ pc = [p \in Procs |-> "none"]
    /\ local = [p \in Procs |-> NoLocal]
    /\ op = [p \in Procs |-> NoOp]
    /\ result = [p \in Procs |-> NoResult]
    /\ calls = [p \in Procs |-> 0]
    /\ spawns = 0
    /\ snap = NoSnap
    /\ target = NoTarget
    /\ notices = [p \in Procs |-> 0]
    /\ stmts = NoStmts
    /\ legacy = NoLegacy
    /\ tracker = NoTracker
    /\ \E v \in Variabilities, b \in UpperBounds :
           /\ AcceptedVariability(v)
           /\ AcceptedUpperBound(b)
           /\ guc = [NoGuc EXCEPT !.bucket_variability = v, !.configured = b]
NextConfig ==
    \/ PG_init
    \/ \E n \in 0..MaxObserved : bucket_for_loaded(n)
    \/ list_histogram_buckets
SpecConfig == InitConfig /\ [][NextConfig]_vars

\* ---------------------------------------------------- pmetrics_stmts
\* Source texts: a statement is a sequence of tokens, 9 a constant;
\* LongText is longer than an entry holds.
TextA == <<1, 9>>
TextB == <<2>>
LongText == [i \in 1..(MAX_QUERY_TEXT_LEN + 1) |-> 3]
Statements == [queryid : 0..MaxQueryIds, text : {TextA, TextB, LongText}, clocations_count : {0, 1}]

\* generate_normalized_query: every constant replaced by a parameter
\* symbol (0).
generate_normalized_query(text) == [i \in 1..Len(text) |-> IF text[i] = 9 THEN 0 ELSE text[i]]

\* What pmetrics_stmts_post_parse_analyze stores for a statement: the
\* normalized text when the jumble has constant locations, the source
\* text otherwise, cut to MAX_QUERY_TEXT_LEN - 1.
QueryTextOf(stmt) ==
    LET text == IF stmt.clocations_count > 0 THEN generate_normalized_query(stmt.text) ELSE stmt.text
        text_len == IF Len(text) >= MAX_QUERY_TEXT_LEN THEN MAX_QUERY_TEXT_LEN - 1 ELSE Len(text)
    IN  [used |-> TRUE, query_len |-> text_len, query_text |-> SubSeq(text, 1, text_len)]

\* dshash_find_or_insert on the queries table: whether the key is there.
\* Variant: found is never set.
queries_found_never(queryid) == FALSE
queries_found(queryid) == stmts.table[queryid].used

\* pmetrics_stmts_post_parse_analyze up to the return of
\* dshash_find_or_insert, which holds the partition lock: nothing for
\* queryId 0 or with pmetrics disabled; a new entry is not initialized.
pmetrics_stmts_post_parse_analyze(p, stmt) ==
    /\ pc[p] = "idle"
    /\ stmts.hook[p].pc = "idle"
    /\ local[p].pmetrics_enabled
    /\ stmt.queryid # 0
    /\ stmts.lock = 0
    /\ stmts' = [stmts EXCEPT !.lock = p,
                              !.hook[p] = [pc |-> IF queries_found(stmt.queryid) THEN "found" ELSE "new", stmt |-> stmt],
                              !.table[stmt.queryid] = IF queries_found(stmt.queryid) THEN @ ELSE UninitQueryText]
    /\ UNCHANGED <<shared_state, dsa, arena, table, lock, pc, local, op, result, calls, spawns, snap, target, notices, guc, legacy, tracker>>

\* found: dshash_release_lock and return.
post_parse_analyze_found(p) ==
    /\ stmts.hook[p].pc = "found"
    /\ stmts' = [stmts EXCEPT !.lock = 0, !.hook[p] = [pc |-> "idle", stmt |-> NoStatement]]
    /\ UNCHANGED <<shared_state, dsa, arena, table, lock, pc, local, op, result, calls, spawns, snap, target, notices, guc, legacy, tracker>>

\* not found: the text copied into the entry, dshash_release_lock.
post_parse_analyze_new(p) ==
    /\ stmts.hook[p].pc = "new"
    /\ stmts' = [stmts EXCEPT !.lock = 0, !.hook[p] = [pc |-> "idle", stmt |-> NoStatement],
                              !.table[stmts.hook[p].stmt.queryid] = QueryTextOf(stmts.hook[p].stmt)]
    /\ UNCHANGED <<shared_state, dsa, arena, table, lock, pc, local, op, result, calls, spawns, snap, target, notices, guc, legacy, tracker>>

\* pmetrics_stmts_cleanup_old_metrics, for one query it found old: the
\* dshash_delete_key of its text.  (Its pmetrics_delete_metric calls
\* work on the metrics table.)
dshash_delete_key(p, queryid) ==
    /\ pc[p] = "idle"
    /\ stmts.hook[p].pc = "idle"
    /\ stmts.lock = 0
    /\ stmts.table[queryid].used
    /\ stmts' = [stmts EXCEPT !.table[queryid] = NoQueryText]
    /\ UNCHANGED <<shared_state, dsa, arena, table, lock, pc, local, op, result, calls, spawns, snap, target, notices, guc, legacy, tracker>>

\* The planner and executor hooks, in one backend with pmetrics.enabled
\* and the track settings on.  A statement is planned, then executed; a
\* function it calls while it is planned or executed runs statements of
\* its own.  queryid 0 is a statement without a query identifier.
Frame(phase, queryid, tracked) == [phase |-> phase, queryid |-> queryid, tracked |-> tracked]
Top == tracker.stack[Len(tracker.stack)]
Popped == SubSeq(tracker.stack, 1, Len(tracker.stack) - 1)

\* pmetrics_stmts_planner_hook up to its call of the planner.
pmetrics_stmts_planner_hook(queryid) ==
    /\ Len(tracker.stack) < MaxDepth
    /\ tracker' = [tracker EXCEPT
           !.nesting_level = @ + 1,
           !.stack = Append(@, Frame("planning", queryid, tracker.nesting_level = 0 /\ queryid # 0))]
    /\ UNCHANGED <<shared_state, dsa, arena, table, lock, pc, local, op, result, calls, spawns, snap, target, notices, stmts, guc, legacy>>

\* The planner returns: PG_FINALLY, then the planning time is recorded
\* in the branch that measures it.
planner_hook_return ==
    /\ tracker.stack # <<>>
    /\ Top.phase = "planning"
    /\ tracker' = [tracker EXCEPT
           !.nesting_level = @ - 1,
           !.stack = Popped,
           !.recorded = IF Top.tracked THEN @ \cup {<<"query_planning_time_ms", Top.queryid>>} ELSE @]
    /\ UNCHANGED <<shared_state, dsa, arena, table, lock, pc, local, op, result, calls, spawns, snap, target, notices, stmts, guc, legacy>>

\* pmetrics_stmts_ExecutorStart_hook.
pmetrics_stmts_ExecutorStart_hook(queryid) ==
    LET tracked == tracker.nesting_level = 0 /\ queryid # 0
    IN  /\ Len(tracker.stack) < MaxDepth
        /\ tracker' = [tracker EXCEPT
               !.stack = Append(@, Frame("executing", queryid, tracked)),
               !.recorded = IF tracked THEN @ \cup {<<"query_last_exec_timestamp", queryid>>} ELSE @]
        /\ UNCHANGED <<shared_state, dsa, arena, table, lock, pc, local, op, result, calls, spawns, snap, target, notices, stmts, guc, legacy>>

\* pmetrics_stmts_ExecutorEnd_hook; Top.tracked is queryDesc->totaltime.
pmetrics_stmts_ExecutorEnd_hook ==
    /\ tracker.stack # <<>>
    /\ Top.phase = "executing"
    /\ tracker' = [tracker EXCEPT
           !.stack = Popped,
           !.recorded = IF Top.queryid # 0 /\ Top.tracked /\ tracker.nesting_level = 0
                        THEN @ \cup {<<"query_execution_time_ms", Top.queryid>>}
                        ELSE @]
    /\ UNCHANGED <<shared_state, dsa, arena, table, lock, pc, local, op, result, calls, spawns, snap, target, notices, stmts, guc, legacy>>

\* An error raised in the innermost statement: it unwinds every
\* statement in progress, running the PG_FINALLY of each planner call.
RECURSIVE PlannerCalls(_)
PlannerCalls(stack) ==
    IF stack = <<>> THEN 0
    ELSE (IF Head(stack).phase = "planning" THEN 1 ELSE 0) + PlannerCalls(Tail(stack))
statement_error ==
    /\ tracker.stack # <<>>
    /\ tracker' = [tracker EXCEPT !.nesting_level = @ - PlannerCalls(tracker.stack), !.stack = <<>>]
    /\ UNCHANGED <<shared_state, dsa, arena, table, lock, pc, local, op, result, calls, spawns, snap, target, notices, stmts, guc, legacy>>

\* Backends analysing statements, and cleaning up, on a started store.
InitStmts ==
    /\ Started
    /\ spawns = NumProcs
    /\ pc = [p \in Procs |-> "idle"]
    /\ target = NoTarget
NextStmts ==
    \E p \in Procs :
        \/ \E stmt \in Statements : pmetrics_stmts_post_parse_analyze(p, stmt)
        \/ post_parse_analyze_found(p)
        \/ post_parse_analyze_new(p)
        \/ \E q \in QueryIds : dshash_delete_key(p, q)
SpecStmts == InitStmts /\ [][NextStmts]_vars

\* The clock advances.
GetCurrentTimestamp ==
    /\ tracker.now < MaxClock
    /\ tracker' = [tracker EXCEPT !.now = @ + 1]
    /\ UNCHANGED <<shared_state, dsa, arena, table, lock, pc, local, op, result, calls, spawns, snap, target, notices, stmts, guc, legacy>>

\* A backend runs a top-level statement of an identity to its end:
\* pmetrics_stmts_post_parse_analyze stores its text when the queryid
\* has none, the ExecutorStart hook sets query_last_exec_timestamp, the
\* planner and ExecutorEnd hooks record the other metrics.
statement_run(id, stmt) ==
    /\ stmt.queryid = id[1]
    /\ stmts.lock = 0
    /\ stmts' = [stmts EXCEPT !.table[id[1]] = IF queries_found(id[1]) THEN @ ELSE QueryTextOf(stmt)]
    /\ tracker' = [tracker EXCEPT !.last_exec[id] = tracker.now]
    /\ UNCHANGED <<shared_state, dsa, arena, table, lock, pc, local, op, result, calls, spawns, snap, target, notices, guc, legacy>>

\* pmetrics_stmts_cleanup_old_metrics up to the end of SPI_execute: the
\* identities whose query_last_exec_timestamp is below the cutoff.
pmetrics_stmts_cleanup_old_metrics(max_age_seconds) ==
    LET cutoff_seconds == tracker.now - max_age_seconds
    IN  /\ tracker.cleanup.pc = "idle"
        /\ tracker' = [tracker EXCEPT !.cleanup =
               [pc |-> "deleting", cutoff_seconds |-> cutoff_seconds,
                stale |-> {id \in Identities : tracker.last_exec[id] # -1 /\ tracker.last_exec[id] < cutoff_seconds}]]
        /\ UNCHANGED <<shared_state, dsa, arena, table, lock, pc, local, op, result, calls, spawns, snap, target, notices, stmts, guc, legacy>>

\* One turn of its loop over the rows: pmetrics_delete_metric for the six
\* metric names under the labels of the identity, then dshash_delete_key
\* of the text of its queryid.
cleanup_old_metrics_delete(id) ==
    /\ tracker.cleanup.pc = "deleting"
    /\ id \in tracker.cleanup.stale
    /\ stmts.lock = 0
    /\ tracker' = [tracker EXCEPT !.last_exec[id] = -1, !.cleanup.stale = @ \ {id}]
    /\ stmts' = [stmts EXCEPT !.table[id[1]] = NoQueryText]
    /\ UNCHANGED <<shared_state, dsa, arena, table, lock, pc, local, op, result, calls, spawns, snap, target, notices, guc, legacy>>

\* SPI_finish and the return.
cleanup_old_metrics_return ==
    /\ tracker.cleanup.pc = "deleting"
    /\ tracker.cleanup.stale = {}
    /\ tracker' = [tracker EXCEPT !.cleanup = NoCleanup]
    /\ UNCHANGED <<shared_state, dsa, arena, table, lock, pc, local, op, result, calls, spawns, snap, target, notices, stmts, guc, legacy>>

\* Backends running statements while the cleanup worker runs.
NextCleanup ==
    \/ GetCurrentTimestamp
    \/ \E id \in Identities, stmt \in Statements : statement_run(id, stmt)
    \/ \E max_age_seconds \in {0, 1} : pmetrics_stmts_cleanup_old_metrics(max_age_seconds)
    \/ \E id \in Identities : cleanup_old_metrics_delete(id)
    \/ cleanup_old_metrics_return
SpecCleanup == InitStmts /\ [][NextCleanup]_vars

\* One backend planning and executing statements, nested ones among them.
NextHooks ==
    \/ \E queryid \in 0..MaxQueryIds : pmetrics_stmts_planner_hook(queryid)
    \/ planner_hook_return
    \/ \E queryid \in 0..MaxQueryIds : pmetrics_stmts_ExecutorStart_hook(queryid)
    \/ pmetrics_stmts_ExecutorEnd_hook
    \/ statement_error
SpecHooks == InitStmts /\ [][NextHooks]_vars

\* ------------------------------------------------------------- claims
\* What is stored, read off the table and the arena directly.
StoredLabels(s) ==
    IF table[s].key.labels_location = LABELS_DSA THEN arena[table[s].key.labels]
    ELSE IF table[s].key.labels_location = LABELS_NONE THEN NULL
    ELSE table[s].key.labels
StoredRow(s) ==
    [name |-> table[s].key.name, labels |-> StoredLabels(s), type |-> table[s].key.type,
     bucket |-> table[s].key.bucket, value |-> table[s].value]
StoredRows == {StoredRow(s) : s \in {t \in Slots : Used(t)}}
StoredValues(name, labels, type, bucket) ==
    {table[s].value : s \in {t \in Slots : /\ Used(t)
                                           /\ table[t].key.name = name
                                           /\ StoredLabels(t) = labels
                                           /\ table[t].key.type = type
                                           /\ table[t].key.bucket = bucket}}
UsedSlots == {s \in Slots : Used(s)}
LiveHandles == {h \in Handles : arena[h] # Free}
ReferencedHandles == {table[s].key.labels : s \in {t \in UsedSlots : table[t].key.labels_location = LABELS_DSA}}
Quiescent == \A p \in Procs : pc[p] \in {"none", "idle", "exited"}
RECURSIVE TotalCalls(_)
TotalCalls(S) == IF S = {} THEN 0 ELSE LET p == CHOOSE q \in S : TRUE IN calls[p] + TotalCalls(S \ {p})
\* The one backend has returned normally from a call of this kind.
After(kind) == pc[1] = "idle" /\ snap.call.kind = kind /\ result[1].status = "ok"
\* The value the caller saw under a key when it made its call, 0 for a
\* key that was not stored.
SeenValue(name, labels, type, bucket) ==
    LET rows == {r \in snap.store : r.name = name /\ r.labels = labels /\ r.type = type /\ r.bucket = bucket}
    IN  IF rows = {} THEN 0 ELSE (CHOOSE r \in rows : TRUE).value
SeenOthers(name, labels, keys) ==
    {r \in snap.store : ~(r.name = name /\ r.labels = labels /\ <<r.type, r.bucket>> \in keys)}
TowardZero(n) == IF n >= 0 THEN n \div ValDen ELSE -((-n) \div ValDen)
\* The store the caller expects after an observation: the two entries of
\* the histogram changed by 1 and by sum_delta, the rest as it saw it.
AfterObservation(name, labels, value, sum_delta) ==
    SeenOthers(name, labels, {<<METRIC_TYPE_HISTOGRAM, bucket_for(value)>>, <<METRIC_TYPE_HISTOGRAM_SUM, 0>>})
    \cup {[name |-> name, labels |-> labels, type |-> METRIC_TYPE_HISTOGRAM, bucket |-> bucket_for(value),
            value |-> SeenValue(name, labels, METRIC_TYPE_HISTOGRAM, bucket_for(value)) + 1],
           [name |-> name, labels |-> labels, type |-> METRIC_TYPE_HISTOGRAM_SUM, bucket |-> 0,
            value |-> SeenValue(name, labels, METRIC_TYPE_HISTOGRAM_SUM, 0) + sum_delta]}

\* C1: a lone backend that has made k increments by 1 of a counter that
\* was not stored finds k stored under the key and was returned k by the
\* k-th; before the first the key is not stored.
C1_IncrementsCount ==
    \A p \in Procs :
        (spawns = 1 /\ pc[p] = "idle") =>
            IF calls[p] = 0
            THEN StoredValues(target.name, target.labels, METRIC_TYPE_COUNTER, 0) = {}
            ELSE /\ StoredValues(target.name, target.labels, METRIC_TYPE_COUNTER, 0) = {calls[p]}
                 /\ result[p] = ResultOf("ok", calls[p], <<>>)
C1_Witness ==
    /\ spawns = 1
    /\ target.labels # NULL
    /\ \E p \in Procs : pc[p] = "idle" /\ calls[p] = MaxIncrements /\ result[p].val = MaxIncrements

\* C2: when every backend has returned from its increments, the counter
\* holds the number of increments made by all of them together, N*M when
\* N backends made M each: none is lost, however their steps interleave.
C2_NoLostUpdate ==
    Quiescent =>
        StoredValues(target.name, target.labels, METRIC_TYPE_COUNTER, 0) =
            IF TotalCalls(Procs) = 0 THEN {} ELSE {TotalCalls(Procs)}
C2_Witness ==
    /\ spawns = NumProcs
    /\ \A p \in Procs : pc[p] = "idle" /\ calls[p] = MaxIncrements
    /\ StoredValues(target.name, target.labels, METRIC_TYPE_COUNTER, 0) = {NumProcs * MaxIncrements}

\* C3: after set_gauge(name, labels, v) returns, exactly v is stored
\* under the gauge key and v was returned, whatever was stored before,
\* an earlier set value included.
C3_SetOverwrites ==
    After("set_gauge") =>
        /\ StoredValues(snap.call.name, snap.call.labels, METRIC_TYPE_GAUGE, 0) = {snap.call.arg}
        /\ result[1].val = snap.call.arg
        /\ Cardinality({s \in UsedSlots : /\ table[s].key.name = snap.call.name
                                           /\ StoredLabels(s) = snap.call.labels
                                           /\ table[s].key.type = METRIC_TYPE_GAUGE}) = 1
C3_Witness ==
    /\ After("set_gauge")
    /\ snap.call.labels # NULL
    /\ \E r \in snap.store : /\ r.name = snap.call.name
                              /\ r.labels = snap.call.labels
                              /\ r.type = METRIC_TYPE_GAUGE
                              /\ r.value > 0
                              /\ r.value # snap.call.arg

\* C4 as claimed: one record_to_histogram changes exactly two entries,
\* the bucket_for(value) bucket by 1 and the sum by floor(value).
C4_SumByFloor ==
    After("record_to_histogram") =>
        StoredRows = AfterObservation(snap.call.name, snap.call.labels, snap.call.arg, Floor(snap.call.arg))
\* C4 as amended: one record_to_histogram changes exactly two entries,
\* the bucket_for(value) bucket by 1 and the sum by the value truncated
\* toward zero; no other entry is created or changed.
C4_SumByTruncation ==
    After("record_to_histogram") =>
        StoredRows = AfterObservation(snap.call.name, snap.call.labels, snap.call.arg, TowardZero(snap.call.arg))
C4_Witness ==
    /\ After("record_to_histogram")
    /\ snap.call.arg < 0
    /\ snap.call.arg % ValDen # 0
    /\ snap.store # {}

\* C5: whenever a record_to_histogram call has ended, with a result or
\* with an error, either both its increments are applied or neither is.
C5_AllOrNothing ==
    (pc[1] = "idle" /\ snap.call.kind = "record_to_histogram" /\ result[1].status # "none") =>
        \/ StoredRows = snap.store
        \/ StoredRows = AfterObservation(snap.call.name, snap.call.labels, snap.call.arg, TowardZero(snap.call.arg))

\* C6: after delete_metric(name, labels) returns no entry of any kind or
\* bucket is stored under that name and those labels, an enumeration
\* yields none, and every allocation still live in the arena belongs to
\* an entry that is still stored.
C6_DeleteRemovesAll ==
    After("delete_metric") =>
        /\ \A r \in StoredRows : ~(r.name = snap.call.name /\ r.labels = snap.call.labels)
        /\ \A k \in 1..Len(MaterializedRows(UsedSlots)) :
               LET row == MaterializedRows(UsedSlots)[k]
               IN  ~(/\ row.name = snap.call.name
                     /\ (IF row.labels_location = LABELS_NONE THEN NULL ELSE row.labels) = snap.call.labels)
        /\ LiveHandles = ReferencedHandles
        /\ Cardinality(LiveHandles) = Cardinality({s \in UsedSlots : table[s].key.labels_location = LABELS_DSA})
C6_Witness ==
    /\ After("delete_metric")
    /\ snap.call.labels # NULL
    /\ result[1].val >= 2
    /\ \E r1, r2 \in snap.store : /\ r1.name = snap.call.name /\ r1.labels = snap.call.labels
                                   /\ r2.name = snap.call.name /\ r2.labels = snap.call.labels
                                   /\ r1.type # r2.type
    /\ LiveHandles = {}

\* C7: after clear_metrics returns the table holds no entry, no label
\* allocation is live in the arena and an enumeration yields nothing.
C7_ClearEmpties ==
    After("clear_metrics") =>
        /\ UsedSlots = {}
        /\ LiveHandles = {}
        /\ MaterializedRows(UsedSlots) = <<>>
C7_Witness ==
    /\ After("clear_metrics")
    /\ Cardinality(snap.store) >= 2
    /\ \E r \in snap.store : r.labels # NULL
    /\ result[1].val >= 2

\* C8: a backend exiting, a backend being forked and a backend attaching
\* leave every stored entry as it was, and the area stays in existence,
\* also when the backend that exits was the only one attached.
LifecycleStep(p) ==
    \/ pc[p] = "idle" /\ pc'[p] = "exited"
    \/ pc[p] \in {"none", "exited"} /\ pc'[p] = "idle"
    \/ local'[p].local_metrics_table # local[p].local_metrics_table
C8_EntriesOutliveBackends ==
    [][(\E p \in Procs : LifecycleStep(p)) => (StoredRows' = StoredRows /\ dsa'.exists)]_vars
C8_Witness ==
    /\ spawns = 2
    /\ calls[1] = 1
    /\ After("list_metrics")
    /\ Len(result[1].rows) >= 2
    /\ dsa.refcnt = 1

\* C9: no two stored entries have the same name, labels, kind and
\* bucket.
C9_KeysUnique ==
    \A s, t \in UsedSlots :
        (/\ table[s].key.name = table[t].key.name
         /\ StoredLabels(s) = StoredLabels(t)
         /\ table[s].key.type = table[t].key.type
         /\ table[s].key.bucket = table[t].key.bucket) => s = t
C9_Witness ==
    /\ \E p, q \in Procs : /\ p # q
                            /\ pc[p] = "load_value"
                            /\ ~op[p].found
                            /\ op[p].key.labels_location = LABELS_LOCAL
                            /\ pc[q] = "find_or_insert"
                            /\ op[q].key = op[p].key
    /\ Cardinality(UsedSlots) >= 2

\* C10: every stored entry has its labels absent (LABELS_NONE) or in the
\* arena (LABELS_DSA), never a pointer into a backend (LABELS_LOCAL).
C10_NoLocalLabelsStored ==
    \A s \in UsedSlots :
        \/ table[s].key.labels_location = LABELS_NONE /\ table[s].key.labels = NULL
        \/ table[s].key.labels_location = LABELS_DSA /\ table[s].key.labels \in LiveHandles
C10_Witness ==
    /\ \E s \in UsedSlots : table[s].key.labels_location = LABELS_DSA
    /\ \E s \in UsedSlots : table[s].key.labels_location = LABELS_NONE
    /\ \E p \in Procs : pc[p] = "find_or_insert" /\ op[p].key.labels_location = LABELS_LOCAL

\* The label payload of a key, read where the key says it is.
PayloadOf(key) ==
    IF key.labels_location = LABELS_LOCAL THEN key.labels
    ELSE IF key.labels_location = LABELS_DSA THEN arena[key.labels]
    ELSE NULL
SameIdentity(k1, k2) ==
    /\ k1.name = k2.name
    /\ k1.type = k2.type
    /\ k1.bucket = k2.bucket
    /\ PayloadOf(k1) = PayloadOf(k2)
ComparesAsIdentity(k1, k2) ==
    /\ (metric_compare_dshash(k1, k2) = 0) <=> SameIdentity(k1, k2)
    /\ (metric_compare_dshash(k2, k1) = 0) <=> SameIdentity(k1, k2)
MetricTypes == {METRIC_TYPE_COUNTER, METRIC_TYPE_GAUGE, METRIC_TYPE_HISTOGRAM, METRIC_TYPE_HISTOGRAM_SUM}

\* C11: metric_compare_dshash returns 0 exactly for two keys with the
\* same name, kind and bucket whose label payloads are both absent or the
\* same bytes, whether a key is a probe (LABELS_LOCAL) or a stored key
\* (LABELS_DSA); payloads of different bytes never compare equal.
C11_CompareEqualIffIdentical ==
    \A s \in UsedSlots :
        /\ \A t \in UsedSlots : ComparesAsIdentity(table[s].key, table[t].key)
        /\ \A n \in SequentialArgs.names, l \in SequentialArgs.labels, ty \in MetricTypes, b \in {0, table[s].key.bucket} :
               ComparesAsIdentity(init_metric_key(n, l, ty, b), table[s].key)
        /\ \A p \in Procs : pc[p] = "find_or_insert" => ComparesAsIdentity(op[p].key, table[s].key)
C11_Witness ==
    \E s, t \in UsedSlots :
        /\ s # t
        /\ table[s].key.labels_location = LABELS_DSA
        /\ table[t].key.labels_location = LABELS_DSA
        /\ table[t].key.name = table[s].key.name
        /\ table[t].key.type = table[s].key.type
        /\ table[t].key.bucket = table[s].key.bucket
        /\ compareJsonbContainers(arena[table[s].key.labels], arena[table[t].key.labels]) = 0
        /\ metric_compare_dshash(table[s].key, table[t].key) # 0
        /\ metric_compare_dshash(init_metric_key(table[s].key.name, arena[table[s].key.labels],
                                                 table[s].key.type, table[s].key.bucket), table[s].key) = 0

\* C12: labels passed as NULL and labels passed as the empty object
\* address the same entry: no name, kind and bucket is stored once
\* without labels and once with the empty object.
C12_NullIsEmptyObject ==
    \A s, t \in UsedSlots :
        (/\ table[s].key.name = table[t].key.name
         /\ table[s].key.type = table[t].key.type
         /\ table[s].key.bucket = table[t].key.bucket
         /\ StoredLabels(s) = NULL) => StoredLabels(t) # EmptyObj

\* A call is being made: the step that enters it.
CallStep(p) == calls'[p] = calls[p] + 1
\* The step leaves the store, the locks and the backend's attachment as
\* they were.
NoSideEffect == table' = table /\ arena' = arena /\ dsa' = dsa /\ lock' = lock /\ local' = local
MutatingKinds ==
    {"increment_counter", "increment_counter_by", "add_to_gauge", "set_gauge", "record_to_histogram",
     "delete_metric", "clear_metrics"}
\* The outcome of a call that did nothing: it is over and returned NULL.
NotRecorded(p) == pc'[p] = "idle" /\ result'[p].status = "null" /\ NoSideEffect

\* C13 as claimed: with pmetrics.enabled off, every mutating operation,
\* SQL function or C function, returns without a result and leaves the
\* store as it was.
C13_DisabledIsNoOp ==
    [][(CallStep(1) /\ ~snap'.enabled /\ snap'.call.kind \in MutatingKinds) => NotRecorded(1)]_vars
\* C13 as amended: with pmetrics.enabled off, the SQL functions
\* increment_counter, increment_counter_by, add_to_gauge, set_gauge,
\* record_to_histogram and delete_metric return NULL and leave the store
\* as it was.
C13_DisabledSqlIsNoOp ==
    [][(/\ CallStep(1)
        /\ ~snap'.enabled
        /\ snap'.sql
        /\ snap'.call.kind \in MutatingKinds \ {"clear_metrics"}) => NotRecorded(1)]_vars
C13_Witness ==
    /\ pc[1] = "idle"
    /\ result[1].status = "null"
    /\ snap.sql
    /\ ~snap.enabled
    /\ snap.call.kind = "delete_metric"
    /\ \E r \in snap.store : r.name = snap.call.name /\ r.labels = snap.call.labels
    /\ StoredRows = snap.store

InvalidCall(call) ==
    \/ call.kind \in MutatingKinds \ {"clear_metrics"} /\ (call.name = NULL \/ Len(call.name) >= NAMEDATALEN)
    \/ call.kind = "increment_counter_by" /\ call.arg <= 0
    \/ call.kind = "add_to_gauge" /\ call.arg = 0
ValidationErrors ==
    {"null input not allowed", "name too long", "increment must be greater than 0", "value can't be 0"}
Rejected(p) == pc'[p] = "idle" /\ result'[p].status \in ValidationErrors /\ NoSideEffect

OutOfLabelMemory == "out of dynamic shared memory for metric labels"
HoldsNoLock(l, p) == \A i \in Partitions : l[i].x # p /\ p \notin l[i].s
\* Every stored entry is whole: its labels are absent or live bytes in
\* the arena.
EntriesWhole ==
    \A s \in UsedSlots :
        /\ table[s].key.labels_location \in {LABELS_NONE, LABELS_DSA}
        /\ table[s].key.labels_location = LABELS_DSA => arena[table[s].key.labels] \notin {Free, Garbage}
\* The step of p is an insertion of a new key with labels into a table
\* with room, the arena being exhausted.
CopyMustFail(p) ==
    /\ pc[p] = "find_or_insert"
    /\ pc'[p] # "find_or_insert"
    /\ op[p].key.labels_location = LABELS_LOCAL
    /\ \A s \in UsedSlots : metric_compare_dshash(op[p].key, table[s].key) # 0
    /\ LiveHandles = Handles
    /\ UsedSlots # Slots

\* C15: an insertion whose label copy finds the arena exhausted raises
\* the out-of-memory error and leaves the table and the arena as they
\* were, the key not stored; the entries any backend can reach are whole
\* at every moment.
C15_FailedCopyLeavesDirectory ==
    [][/\ \A p \in Procs :
            /\ CopyMustFail(p) => result'[p].status = OutOfLabelMemory
            /\ (pc[p] = "find_or_insert" /\ result'[p].status = OutOfLabelMemory) =>
                   /\ table' = table
                   /\ arena' = arena
                   /\ pc'[p] = "idle"
                   /\ \A s \in Slots : table'[s].hash # -1 => metric_compare_dshash(op[p].key, table'[s].key) # 0
       /\ EntriesWhole']_vars
C15_Witness ==
    \E p, q \in Procs :
        /\ p # q
        /\ pc[p] = "idle"
        /\ result[p].status = OutOfLabelMemory
        /\ pc[q] = "find_or_insert"
        /\ LiveHandles = Handles
        /\ UsedSlots # Slots

Paused(p) == pc[p] = "srf_percall" \/ (pc[p] = "idle" /\ result[p].status = "abandoned")
\* The partition lock the next step of backend q needs is free for it.
NextLockFree(q) ==
    /\ pc[q] = "find_or_insert" => CanLockExclusive(q, PartitionForHash(metric_hash_dshash(op[q].key)))
    /\ (pc[q] = "seq_scan" /\ op[q].kind \in {"delete_metric", "clear_metrics"}) => CanLockExclusive(q, op[q].cur + 1)

\* C17: list_metrics reads each partition under its shared lock during
\* its first call; paused between two rows, or abandoned, it has all its
\* rows in its own memory and holds no partition lock, so that an
\* increment, set, delete or clear of another backend, all others being
\* paused or idle, finds the lock it needs free.
C17_PausedEnumerationHoldsNoLock ==
    /\ \A p \in Procs :
           /\ Paused(p) => HoldsNoLock(lock, p)
           /\ pc[p] = "srf_percall" => op[p].count = Len(op[p].rows) /\ op[p].cur <= op[p].count
           /\ (pc[p] = "seq_scan" /\ op[p].kind = "list_metrics" /\ op[p].cur > 0) => p \in lock[op[p].cur].s
    /\ \A q \in Procs :
           (\A p \in Procs \ {q} : Paused(p) \/ pc[p] \in {"none", "idle", "exited"}) => NextLockFree(q)
C17_Witness ==
    \E p, q \in Procs :
        /\ pc[p] = "srf_percall"
        /\ op[p].cur >= 1
        /\ op[p].cur < op[p].count
        /\ pc[q] = "seq_scan"
        /\ op[q].kind = "clear_metrics"
        /\ op[q].cur = 1
        /\ lock[1].x = q

\* The rows of the store as it stood when the caller's last call began,
\* the kind of each by its name.
RowsAtCallStart ==
    {[name |-> r.name, labels |-> r.labels, type |-> type_str(r.type), bucket |-> r.bucket, value |-> r.value] :
        r \in snap.store}
\* The rows the enumeration of backend p has yielded so far.
Yielded(p) == {result[p].rows[i] : i \in 1..Len(result[p].rows)}
Enumerating(p) ==
    /\ snap.call.kind = "list_metrics"
    /\ pc[p] = "srf_percall" \/ (pc[p] = "idle" /\ result[p].status \in {"ok", "abandoned"})

\* C18: an enumeration whose first call ran with no writer beside it
\* yields a fixed number of rows, the number of entries stored when it
\* began; each row yielded is one of those entries as (name, labels,
\* kind, bucket, value), labels by value; no entry is yielded twice; when
\* it is done every entry has been yielded; and what other backends
\* write, delete or clear between its rows changes none of this.
C18_EnumerationIsPrivateSnapshot ==
    Enumerating(1) =>
        /\ Yielded(1) \subseteq RowsAtCallStart
        /\ Cardinality(Yielded(1)) = Len(result[1].rows)
        /\ pc[1] = "srf_percall" =>
               /\ op[1].count = Cardinality(RowsAtCallStart)
               /\ Len(result[1].rows) = op[1].cur
        /\ (pc[1] = "idle" /\ result[1].status = "ok") =>
               /\ Yielded(1) = RowsAtCallStart
               /\ result[1].val = Cardinality(RowsAtCallStart)
C18_Witness ==
    /\ pc[1] = "idle"
    /\ snap.call.kind = "list_metrics"
    /\ result[1].status = "ok"
    /\ Len(result[1].rows) >= 2
    /\ \E i \in 1..Len(result[1].rows) : result[1].rows[i].labels = LabelsK
    /\ UsedSlots = {}
    /\ LiveHandles = {}
    /\ calls[2] = MaxCalls

\* The attachment of backend p: its mapping of the area, its table
\* handle and the exit callbacks it has registered.
Attachment(p) == <<local[p].local_dsa, local[p].local_metrics_table, local[p].exit_hooks>>
Unattached == <<FALSE, FALSE, 0>>
Attached == <<TRUE, TRUE, 1>>
AttachedBackends == {p \in Procs : local[p].local_dsa}

C20_UninitializedStoreFails ==
    [][\A p \in Procs :
          (CallStep(p) /\ ~pmetrics_is_initialized) =>
              /\ pc'[p] = "idle"
              /\ result'[p].status = IF ~shared_state.exists
                                     THEN "pmetrics shared state not initialized"
                                     ELSE "pmetrics not properly initialized during startup"
              /\ table' = table /\ arena' = arena /\ dsa' = dsa /\ lock' = lock
              /\ shared_state' = shared_state
              /\ Attachment(p) = Unattached
              /\ Attachment(p)' = Unattached
      ]_vars
C20_Witness ==
    /\ ~pmetrics_is_initialized
    /\ pc[1] = "idle"
    /\ calls[1] = MaxCalls
    /\ result[1].status = "pmetrics shared state not initialized"
    /\ Attachment(1) = Unattached
    /\ UsedSlots = {}
    /\ ~dsa.exists

\* C21: the block, once it exists, is never written again, and the
\* handle in it is the handle of the one area ever created; the step
\* that creates area and table is taken before any backend exists and
\* leaves both empty; forking a backend (which runs startup where
\* backends are exec'ed) and every call of a backend leave block and
\* area identity as they are.
C21_CreatedExactlyOnce ==
    [][/\ shared_state.exists =>
              /\ shared_state' = shared_state
              /\ dsa'.handle = dsa.handle
              /\ dsa'.exists
       /\ shared_state'.exists =>
              /\ shared_state'.initialized
              /\ shared_state'.dsa = dsa'.handle
              /\ dsa'.handle = 1
       /\ (~shared_state.exists /\ shared_state'.exists) =>
              /\ \A p \in Procs : pc[p] = "none" /\ local[p] = NoLocal
              /\ UsedSlots' = {} /\ LiveHandles' = {}
              /\ dsa'.pinned /\ dsa'.refcnt = 0
      ]_vars
C21_Witness ==
    /\ spawns = MaxSpawns
    /\ pc[1] = "idle"
    /\ calls[1] = 1
    /\ local[1].local_metrics_table
    /\ shared_state.dsa = 1
    /\ dsa.handle = 1
    /\ UsedSlots # {}
    /\ result[1].status = "ok"
    /\ snap.store # {}

\* The calls that return what increment_by returns.
IncrementKinds == {"increment_counter", "increment_counter_by", "add_to_gauge"}
\* Backend p takes the step that stores entry->value + amount.
StoresSum(p) == pc[p] = "store_value" /\ pc'[p] # "store_value"

\* C22: the step of increment_by that stores the sum finds under the
\* key what the same call read (0 for an entry it has just inserted),
\* leaves that plus its own amount there, and the call returns that sum,
\* whatever other backends increment or set under the same key
\* meanwhile.
C22_ReturnsOwnSum ==
    [][\A p \in Procs :
          (StoresSum(p) /\ op[p].kind \in IncrementKinds) =>
              /\ metric_compare_dshash(op[p].key, table[op[p].entry].key) = 0
              /\ op[p].found => table'[op[p].entry].value = table[op[p].entry].value + op[p].amount
              /\ ~op[p].found => table'[op[p].entry].value = op[p].amount
              /\ pc'[p] = "idle"
              /\ result'[p] = ResultOf("ok", table'[op[p].entry].value, <<>>)
      ]_vars
C22_Witness ==
    \E p, q \in Procs :
        /\ p # q
        /\ pc[p] = "store_value"
        /\ op[p].kind = "add_to_gauge"
        /\ op[p].found
        /\ table[op[p].entry].value = 5
        /\ pc[q] = "find_or_insert"
        /\ op[q].kind \in {"add_to_gauge", "set_gauge"}
        /\ calls[q] = 2
        /\ metric_compare_dshash(op[q].key, table[op[p].entry].key) = 0

\* The histogram buckets stored under a name and labels.
StoredBuckets(name, labels) ==
    {table[s].key.bucket : s \in {t \in UsedSlots : /\ table[t].key.type = METRIC_TYPE_HISTOGRAM
                                                     /\ table[t].key.name = name
                                                     /\ StoredLabels(t) = labels}}
BelowOne(n) == n < ValDen

\* C23: for a value below 1.0 bucket_for returns 0 and the histogram
\* entry recorded for it has bucket 0.
C23_BelowOneIsBucketZero ==
    (After("record_to_histogram") /\ BelowOne(snap.call.arg)) =>
        /\ bucket_for(snap.call.arg) = 0
        /\ 0 \in StoredBuckets(snap.call.name, snap.call.labels)

\* Backend p begins a record_to_histogram that passes validation and
\* attachment.
RecordsObservation(p) ==
    /\ CallStep(p)
    /\ snap'.call.kind = "record_to_histogram"
    /\ pc'[p] = "find_or_insert"
\* gamma^index with its fraction dropped, in exact arithmetic.
UnclampedBound(n) == IntPowGamma(bucket_index(n))

\* C24: the bucket an observation is recorded under never exceeds
\* buckets_upper_bound; the call sends one truncation notice when the
\* unclamped bound of the value exceeds buckets_upper_bound and none
\* otherwise; when it exceeds, the call returns normally with the
\* observation counted in the buckets_upper_bound bucket.
C24_ClampedWithNotice ==
    [][/\ RecordsObservation(1) =>
              /\ op'[1].key.bucket <= buckets_upper_bound
              /\ notices'[1] = notices[1] + (IF UnclampedBound(snap'.call.arg) > buckets_upper_bound THEN 1 ELSE 0)
              /\ UnclampedBound(snap'.call.arg) > buckets_upper_bound => op'[1].key.bucket = buckets_upper_bound
       /\ (After("record_to_histogram") /\ UnclampedBound(snap.call.arg) > buckets_upper_bound) =>
              buckets_upper_bound \in StoredBuckets(snap.call.name, snap.call.labels)
      ]_vars

\* C25: an observation at or above the configured upper bound is
\* recorded under the buckets_upper_bound bucket and the call sends one
\* truncation notice.
C25_AtOrAboveBoundIsClamped ==
    [][(RecordsObservation(1) /\ snap'.call.arg >= ConfiguredUpperBound * ValDen) =>
          /\ op'[1].key.bucket = buckets_upper_bound
          /\ notices'[1] = notices[1] + 1
      ]_vars

\* The bucket boundaries up to buckets_upper_bound: (int)pow(gamma, k).
Boundaries == {IntPowGamma(k) : k \in 0..max_bucket_exp}

\* C26: an observation v with 1.0 <= v <= buckets_upper_bound is
\* recorded under a bucket boundary that is at least v, the smallest of
\* the boundaries that are.
C26_SmallestBoundaryAtLeastValue ==
    [][(/\ RecordsObservation(1)
        /\ snap'.call.arg >= ValDen
        /\ snap'.call.arg <= buckets_upper_bound * ValDen) =>
          /\ op'[1].key.bucket \in Boundaries
          /\ op'[1].key.bucket * ValDen >= snap'.call.arg
          /\ \A b \in Boundaries : b * ValDen >= snap'.call.arg => op'[1].key.bucket <= b
      ]_vars

\* C27: with no other backend at work, clear_metrics returns the number
\* of entries that were stored when it was called and leaves none;
\* delete_metric returns the number of entries that were stored when it
\* was called and are not stored any more, stores nothing new, and
\* returns 0 with the store as it was when no entry has the name.
C27_ReturnsNumberRemoved ==
    /\ After("clear_metrics") =>
           /\ result[1].val = Cardinality(snap.store)
           /\ StoreView = {}
    /\ After("delete_metric") =>
           /\ StoreView \subseteq snap.store
           /\ result[1].val = Cardinality(snap.store \ StoreView)
           /\ (\A r \in snap.store : r.name # snap.call.name) => (result[1].val = 0 /\ StoreView = snap.store)
C27_Witness ==
    /\ After("delete_metric")
    /\ result[1].val = 0
    /\ \E r \in snap.store : r.name = snap.call.name /\ r.labels = LabelsK
    /\ snap.call.labels = LabelsQ
    /\ StoreView = snap.store
    /\ calls[1] = 2

\* Backend p has inserted the entry of queryid q and not yet filled it.
Filling(p, q) == stmts.hook[p].pc = "new" /\ stmts.hook[p].stmt.queryid = q /\ stmts.lock = p

\* C28: an entry of the query-text table that exists and is not just
\* being filled by the backend that inserted it keeps its text and its
\* length through every step that does not delete it, the analysis of a
\* statement with the same queryid and another text by any backend
\* included; an entry is filled by the backend that inserted it, with
\* the text of that backend's statement.
C28_FirstWriteWins ==
    [][\A q \in QueryIds :
          /\ (stmts.table[q].used /\ \A p \in Procs : ~Filling(p, q)) =>
                 (stmts'.table[q] = stmts.table[q] \/ ~stmts'.table[q].used)
          /\ \A p \in Procs :
                 Filling(p, q) => stmts'.table[q] \in {stmts.table[q], QueryTextOf(stmts.hook[p].stmt)}
      ]_vars
C28_Witness ==
    \E p \in Procs :
        LET stmt == stmts.hook[p].stmt
        IN  /\ stmts.hook[p].pc = "found"
            /\ stmts.table[stmt.queryid] # QueryTextOf(stmt)
            /\ stmts.table[stmt.queryid].query_len = MAX_QUERY_TEXT_LEN - 1
            /\ stmt.text = TextA
            /\ \E q \in QueryIds : stmts.table[q].query_text = <<1, 0>>

\* C29: delete_metric(name, labels) removes exactly the entries a lookup
\* by that name and those labels finds: those whose name is name and
\* whose labels are absent as the given ones are, or the same bytes.
C29_DeleteMatchesAsLookup ==
    After("delete_metric") =>
        \A r \in snap.store :
            (r \notin StoreView) <=> (r.name = snap.call.name /\ r.labels = snap.call.labels)

\* The entries whose labels are the arena allocation h.
ReferencesTo(t, h) == {s \in Slots : t[s].hash # -1 /\ t[s].key.labels_location = LABELS_DSA /\ t[s].key.labels = h}
NoPartitionLockHeld == \A i \in Partitions : lock[i].x = 0 /\ lock[i].s = {}
\* Every live allocation is the labels of exactly one stored entry and
\* every stored entry with labels points at a live allocation.
Paired(a, t) ==
    /\ \A h \in Handles : a[h] # Free => Cardinality(ReferencesTo(t, h)) = 1
    /\ \A h \in Handles : a[h] = Free => ReferencesTo(t, h) = {}

\* C30: whenever no partition lock is held, the live label allocations
\* of the arena are exactly the handles the stored entries point at, one
\* entry for each; a step allocates only for an entry it inserts and
\* frees only the live labels of an entry it removes, whatever the
\* interleaving of increments, sets, observations, deletes and clears,
\* those that fail included.
C30_CopyAndFreePaired ==
    [][/\ NoPartitionLockHeld' => Paired(arena', table')
       /\ \A h \in Handles :
              /\ (arena[h] = Free /\ arena'[h] # Free) =>
                     \E s \in ReferencesTo(table', h) : table[s].hash = -1
              /\ (arena[h] # Free /\ arena'[h] = Free) =>
                     \E s \in ReferencesTo(table, h) : table'[s].hash = -1]_vars
C30_Witness ==
    /\ NoPartitionLockHeld
    /\ LiveHandles = {}
    /\ \E p, q \in Procs :
           /\ p # q
           /\ pc[p] = "idle" /\ result[p].status = OutOfLabelMemory
           /\ pc[q] = "idle" /\ result[q].status = "ok" /\ result[q].val >= 2

\* C31: once the exit callback of a backend has detached the table and
\* the area, no later operation of that backend attaches them again.
C31_DetachedIsTerminal ==
    [][\A p \in Procs :
          (local[p].shmem_exit_inprogress /\ local'[p].shmem_exit_inprogress) =>
              (~local'[p].local_metrics_table /\ ~local'[p].local_dsa)]_vars

\* C32: whenever a backend has no operation in progress its area is
\* mapped if and only if its table is attached and if and only if its
\* exit callback is registered; a backend whose attachment failed is
\* left with neither.
C32_AttachmentAllOrNothing ==
    \A p \in Procs :
        pc[p] = "idle" =>
            /\ local[p].local_dsa <=> local[p].local_metrics_table
            /\ local[p].local_metrics_table <=> local[p].exit_hooks > 0

\* Two keys that compare equal have the same hash and the same partition.
HashAgrees(k1, k2) ==
    metric_compare_dshash(k1, k2) = 0 =>
        /\ metric_hash_dshash(k1) = metric_hash_dshash(k2)
        /\ PartitionForHash(metric_hash_dshash(k1)) = PartitionForHash(metric_hash_dshash(k2))

\* C33: keys that compare equal hash alike and so fall in the same
\* partition, whether a key is a probe with its labels in the backend
\* or a stored key with its labels in the arena; a stored key hashes as
\* the probe that inserted it.
C33_HashConsistentWithEquality ==
    \A s \in UsedSlots :
        /\ table[s].hash = metric_hash_dshash(table[s].key)
        /\ \A t \in UsedSlots : HashAgrees(table[s].key, table[t].key)
        /\ \A n \in SequentialArgs.names, l \in SequentialArgs.labels, ty \in MetricTypes, b \in {0, table[s].key.bucket} :
               /\ HashAgrees(init_metric_key(n, l, ty, b), table[s].key)
               /\ HashAgrees(table[s].key, init_metric_key(n, l, ty, b))
        /\ \A p \in Procs : pc[p] = "find_or_insert" => HashAgrees(op[p].key, table[s].key)
C33_Witness ==
    \E s \in UsedSlots :
        /\ table[s].key.labels_location = LABELS_DSA
        /\ pc[1] = "find_or_insert"
        /\ op[1].key.labels_location = LABELS_LOCAL
        /\ metric_compare_dshash(op[1].key, table[s].key) = 0
        /\ \E t \in UsedSlots : t # s /\ table[t].key.name = table[s].key.name

\* C34: under every accepted bucket_variability the gamma _PG_init
\* derives has a denominator that is not zero, is finite and is greater
\* than 1.
C34_GammaWellDefined ==
    guc.loaded =>
        /\ guc.bucket_variability[2] - guc.bucket_variability[1] # 0
        /\ ~Infinite(guc.gamma_val)
        /\ guc.gamma_val[1] > guc.gamma_val[2]

\* C35: under every accepted pair of settings a bucket bucket_for
\* returned is among those list_histogram_buckets lists, and the list is
\* strictly increasing.
C35_ReturnedBucketsAreListed ==
    guc.listed # <<>> =>
        /\ \A b \in guc.returned : \E i \in 1..Len(guc.listed) : guc.listed[i] = b
        /\ \A i \in 1..(Len(guc.listed) - 1) : guc.listed[i] < guc.listed[i + 1]

\* C36: in the store of src/pmetrics.c a backend holds the table lock
\* only while an enumeration of its own is in progress: the lock is
\* released for every enumeration, one the caller stopped consuming
\* included, so that no increment waits for a lock nobody will release.
C36_LegacyEnumerationReleasesLock ==
    \A p \in Procs : legacy.lock = p => legacy.scan[p].open

\* C37: a query metric is recorded only for a statement no other
\* statement encloses, planned or executed, and nesting_level counts
\* the planner calls in progress: it is back at its value after every
\* planner call, one that raises an error included.
C37_TopLevelOnly ==
    [][/\ tracker'.recorded # tracker.recorded =>
              LET enclosing == IF Len(tracker'.stack) > Len(tracker.stack) THEN tracker.stack ELSE tracker'.stack
              IN  \A i \in 1..Len(enclosing) : ~enclosing[i].tracked
       /\ tracker'.nesting_level = PlannerCalls(tracker'.stack)]_vars

\* C38: the cleanup removes the metrics of an identity only if its
\* query_last_exec_timestamp is below the cutoff at the moment they are
\* removed: an identity run again since the selection keeps them.
C38_CleanupRemovesOnlyStale ==
    [][\A id \in Identities :
          (tracker.last_exec[id] # -1 /\ tracker'.last_exec[id] = -1) =>
              tracker.last_exec[id] < tracker.cleanup.cutoff_seconds]_vars

\* C39: the cleanup removes the text of a queryid only when no identity
\* of that queryid has metrics left.
C39_TextOutlivesMetrics ==
    [][\A q \in QueryIds :
          (stmts.table[q].used /\ ~stmts'.table[q].used) =>
              \A id \in Identities : id[1] = q => tracker'.last_exec[id] = -1]_vars

\* The calls that work on the one entry of their key, and the kind of
\* entry each works on.
PointKinds == {"increment_counter", "increment_counter_by", "add_to_gauge", "set_gauge"}
TypeOfKind(kind) == IF kind \in {"add_to_gauge", "set_gauge"} THEN METRIC_TYPE_GAUGE ELSE METRIC_TYPE_COUNTER
InPointCall(p) ==
    /\ op[p].kind \in PointKinds
    /\ pc[p] \in {"find_or_insert", "load_value", "store_value", "set_value"}
    /\ pc'[p] # pc[p]
\* Slot s holds the entry of the key that backend p's call names.
EntryOfCall(s, p) ==
    /\ table[s].key.name = op[p].name
    /\ StoredLabels(s) = op[p].labels
    /\ table[s].key.type = TypeOfKind(op[p].kind)
    /\ table[s].key.bucket = 0

\* C40: a step of increment, add-to-gauge or set on key k leaves every
\* stored entry of another key (same name and labels under another
\* kind or bucket included) with its key, labels and value, removes
\* none, and adds no entry but k's, whatever the other backends do.
C40_OnlyOwnEntryChanges ==
    [][\A p \in Procs :
          InPointCall(p) =>
              \A s \in Slots :
                  /\ (Used(s) /\ ~EntryOfCall(s, p)) =>
                        /\ table'[s] = table[s]
                        /\ StoredLabels(s)' = StoredLabels(s)
                  /\ (~Used(s) /\ Used(s)') =>
                        /\ table'[s].key.name = op[p].name
                        /\ StoredLabels(s)' = op[p].labels
                        /\ table'[s].key.type = TypeOfKind(op[p].kind)
                        /\ table'[s].key.bucket = 0
      ]_vars
C40_Witness ==
    \E p, q \in Procs :
        /\ p # q
        /\ pc[p] = "set_value"
        /\ op[p].kind = "set_gauge"
        /\ op[p].found
        /\ \E s \in UsedSlots :
              /\ table[s].key.name = op[p].name
              /\ StoredLabels(s) = op[p].labels
              /\ table[s].key.type = METRIC_TYPE_COUNTER
              /\ table[s].value # 0
        /\ op[q].kind \in PointKinds
        /\ pc[q] \in {"find_or_insert", "store_value"}
        /\ calls[q] = 2
        /\ op[q].labels # op[p].labels

====
